---- MODULE Spec2Model ----
(***************************************************************************)
(* NV2A PGRAPH primitive index rewrite (prim_rewrite.c / prim_rewrite.h)   *)
(* and the Vulkan storage-buffer bump allocator (pgraph/vk/buffer.c).      *)
(*                                                                         *)
(* The rewrite engine is modelled function by function: every C loop is a  *)
(* recursive operator over the loop variable, every emit_* helper appends  *)
(* to the index array the PrimRewrite result points at.  The scratch       *)
(* buffer PrimRewriteBuf is the pair (data, capacity); data is an abstract *)
(* heap address, 0 standing for NULL.                                      *)
(***************************************************************************)
EXTENDS Integers, Sequences, FiniteSets, TLC

VARIABLES prim_rewrite_buf, call, result, status, storage_buffers, bufop,
          uploaded_bitmap, bitmap_size

vars == <<prim_rewrite_buf, call, result, status, storage_buffers, bufop,
          uploaded_bitmap, bitmap_size>>
rewriteVars == <<prim_rewrite_buf, call, result>>
bitmapVars == <<uploaded_bitmap, bitmap_size>>
bufferVars == <<storage_buffers, bufop, bitmapVars>>

(***************************************************************************)
(* Bounds of the model.                                                    *)
(***************************************************************************)
\* longest sequential input 0..n-1 given to the entry points
MaxCount == 6
\* longest explicit index array with repeated index values
MaxRepLen == 4
\* most (start, count) ranges in one call of the ranges entry point
MaxRanges == 2
\* largest count of one range in a list of ranges
MaxRangeCount == 4
\* longest input of a call made on a scratch buffer that is already in use
MaxLiveCount == 5
\* largest count of one range in a list of ranges given to such a call
MaxLiveRangeCount == 3

NULL == 0
\* heap addresses g_realloc may return
Addresses == {1, 2}
\* index values of the explicit arrays with repeated values
RepValues == {0, 1}
\* first vertex of a sequential range
Starts == {0, 2}

(***************************************************************************)
(* enum ShaderPrimitiveMode / enum ShaderPolygonMode / PrimAssemblyState   *)
(***************************************************************************)
PrimitiveModes ==
    { "PRIM_TYPE_POINTS", "PRIM_TYPE_LINES", "PRIM_TYPE_LINE_STRIP",
      "PRIM_TYPE_LINE_LOOP", "PRIM_TYPE_TRIANGLES", "PRIM_TYPE_TRIANGLE_STRIP",
      "PRIM_TYPE_TRIANGLE_FAN", "PRIM_TYPE_QUADS", "PRIM_TYPE_QUAD_STRIP",
      "PRIM_TYPE_POLYGON" }

PolygonModes == { "POLY_MODE_POINT", "POLY_MODE_LINE", "POLY_MODE_FILL" }

PrimAssemblyState ==
    [ primitive_mode : PrimitiveModes, polygon_mode : PolygonModes,
      last_provoking : BOOLEAN, flat_shading : BOOLEAN ]

MAX(a, b) == IF a > b THEN a ELSE b

(***************************************************************************)
(* Scratch buffer                                                          *)
(***************************************************************************)
pgraph_prim_rewrite_init == [ data |-> NULL, capacity |-> 0 ]

pgraph_prim_rewrite_finalize(buf) == [ data |-> NULL, capacity |-> 0 ]

\* mutant: the new capacity is the doubled old one, the need forgotten
ensure_capacity_doubling_only(buf, needed) ==
    IF needed <= buf.capacity
    THEN { buf }
    ELSE { [ data |-> a, capacity |-> buf.capacity * 2 ] : a \in Addresses }

\* mutant: the buffer grows to the need alone, never by doubling
ensure_capacity_exact_need(buf, needed) ==
    IF needed <= buf.capacity
    THEN { buf }
    ELSE { [ data |-> a, capacity |-> needed ] : a \in Addresses }

\* g_realloc either grows the block in place or moves it: every address is
\* a possible outcome, so the operator yields the set of resulting buffers.
ensure_capacity(buf, needed) ==
    IF needed <= buf.capacity
    THEN { buf }
    ELSE { [ data |-> a, capacity |-> MAX(needed, buf.capacity * 2) ] :
             a \in Addresses }

(***************************************************************************)
(* Output mode, rewrite necessity, output bound                            *)
(***************************************************************************)
\* mutant: the polygon-like topologies become triangles in fill mode Fill
\* only, lines in fill mode Point too
get_output_mode_fill_only(primitive_mode, polygon_mode) ==
    CASE primitive_mode = "PRIM_TYPE_POINTS" -> "PRIM_TYPE_POINTS"
      [] primitive_mode \in { "PRIM_TYPE_LINES", "PRIM_TYPE_LINE_STRIP",
                              "PRIM_TYPE_LINE_LOOP" } -> "PRIM_TYPE_LINES"
      [] primitive_mode \in { "PRIM_TYPE_TRIANGLES", "PRIM_TYPE_TRIANGLE_STRIP",
                              "PRIM_TYPE_TRIANGLE_FAN" } -> "PRIM_TYPE_TRIANGLES"
      [] primitive_mode \in { "PRIM_TYPE_QUADS", "PRIM_TYPE_QUAD_STRIP",
                              "PRIM_TYPE_POLYGON" } ->
            IF polygon_mode = "POLY_MODE_FILL" THEN "PRIM_TYPE_TRIANGLES"
                                               ELSE "PRIM_TYPE_LINES"
      [] OTHER -> "assert_failed"

pgraph_prim_rewrite_get_output_mode(primitive_mode, polygon_mode) ==
    CASE primitive_mode = "PRIM_TYPE_POINTS" -> "PRIM_TYPE_POINTS"
      [] primitive_mode \in { "PRIM_TYPE_LINES", "PRIM_TYPE_LINE_STRIP",
                              "PRIM_TYPE_LINE_LOOP" } -> "PRIM_TYPE_LINES"
      [] primitive_mode \in { "PRIM_TYPE_TRIANGLES", "PRIM_TYPE_TRIANGLE_STRIP",
                              "PRIM_TYPE_TRIANGLE_FAN" } -> "PRIM_TYPE_TRIANGLES"
      [] primitive_mode \in { "PRIM_TYPE_QUADS", "PRIM_TYPE_QUAD_STRIP",
                              "PRIM_TYPE_POLYGON" } ->
            IF polygon_mode = "POLY_MODE_LINE" THEN "PRIM_TYPE_LINES"
                                               ELSE "PRIM_TYPE_TRIANGLES"
      [] OTHER -> "assert_failed"

\* mutant: Lines and Triangles rewritten when either flag is set
needs_rewrite_either_flag(mode) ==
    CASE mode.primitive_mode = "PRIM_TYPE_POINTS" -> FALSE
      [] mode.primitive_mode \in { "PRIM_TYPE_LINES", "PRIM_TYPE_TRIANGLES" } ->
            mode.last_provoking \/ mode.flat_shading
      [] OTHER -> TRUE

needs_rewrite(mode) ==
    CASE mode.primitive_mode = "PRIM_TYPE_POINTS" -> FALSE
      [] mode.primitive_mode \in { "PRIM_TYPE_LINES", "PRIM_TYPE_TRIANGLES" } ->
            mode.last_provoking /\ mode.flat_shading
      [] OTHER -> TRUE

max_output_indices(mode, polygon_mode, input_count) ==
    CASE mode = "PRIM_TYPE_LINES" -> input_count
      [] mode = "PRIM_TYPE_LINE_STRIP" ->
            IF input_count >= 2 THEN (input_count - 1) * 2 ELSE 0
      [] mode = "PRIM_TYPE_LINE_LOOP" ->
            IF input_count >= 2 THEN input_count * 2 ELSE 0
      [] mode = "PRIM_TYPE_TRIANGLES" -> input_count
      [] mode \in { "PRIM_TYPE_TRIANGLE_STRIP", "PRIM_TYPE_TRIANGLE_FAN" } ->
            IF input_count >= 3 THEN (input_count - 2) * 3 ELSE 0
      [] mode = "PRIM_TYPE_POLYGON" ->
            IF polygon_mode = "POLY_MODE_LINE"
            THEN (IF input_count >= 2 THEN input_count * 2 ELSE 0)
            ELSE (IF input_count >= 3 THEN (input_count - 2) * 3 ELSE 0)
      [] mode = "PRIM_TYPE_QUADS" ->
            IF polygon_mode = "POLY_MODE_LINE"
            THEN (input_count \div 4) * 8
            ELSE (input_count \div 4) * 6
      [] mode = "PRIM_TYPE_QUAD_STRIP" ->
            IF polygon_mode = "POLY_MODE_LINE"
            THEN (IF input_count >= 4 THEN ((input_count - 2) \div 2) * 8 ELSE 0)
            ELSE (IF input_count >= 4 THEN ((input_count - 2) \div 2) * 6 ELSE 0)
      [] OTHER -> 0

(***************************************************************************)
(* Index access and emission.  An index source idx is the record           *)
(* [isNull, elems]: the C pointer is either NULL (sequential input) or     *)
(* points at the array elems, whose C element i is elems[i + 1].           *)
(* A PrimRewrite r is [indices, num_indices, data]: data holds what the    *)
(* array r.indices points at contains at positions 0..num_indices-1, so    *)
(* the store r->indices[r->num_indices++] = v appends v to data.           *)
(***************************************************************************)
NullIdx == [ isNull |-> TRUE, elems |-> << >> ]
ArrayIdx(a) == [ isNull |-> FALSE, elems |-> a ]

\* mutant: the sequential index is one too far
idx_at_off_by_one(idx, i, base) ==
    IF ~idx.isNull THEN idx.elems[i + 1] ELSE base + i + 1

idx_at(idx, i, base) == IF ~idx.isNull THEN idx.elems[i + 1] ELSE base + i

emit_vertex(r, v) ==
    [ r EXCEPT !.data = Append(r.data, v), !.num_indices = r.num_indices + 1 ]

emit_line(r, a, b) == emit_vertex(emit_vertex(r, a), b)

\* mutant: the line is emitted as given, never swapped
emit_line_pv_unswapped(r, a, b, p) == emit_line(r, a, b)

emit_line_pv(r, a, b, p) == IF p = a THEN emit_line(r, a, b) ELSE emit_line(r, b, a)

\* mutant: the third vertex of the triangle is not written
emit_tri_third_dropped(r, a, b, c) == emit_vertex(emit_vertex(r, a), b)

emit_tri(r, a, b, c) == emit_vertex(emit_vertex(emit_vertex(r, a), b), c)

\* mutant: the triangle is emitted as given, not rotated to its provoking vertex
emit_tri_pv_unrotated(r, a, b, c, p) == emit_tri(r, a, b, c)

emit_tri_pv(r, a, b, c, p) ==
    IF p = a THEN emit_tri(r, a, b, c)
    ELSE IF p = b THEN emit_tri(r, b, c, a)
    ELSE emit_tri(r, c, a, b)

(***************************************************************************)
(* Decomposition rules.  Each rewrite_X is the C function; rewrite_X_loop  *)
(* is its for loop with the loop variable i as the last parameter.         *)
(***************************************************************************)
\* mutant: the loop over the line pairs steps by one vertex, not by two
RECURSIVE rewrite_lines_loop_step_one(_, _, _, _, _, _)
rewrite_lines_loop_step_one(r, idx, base, count, last_provoking, i) ==
    IF i + 1 < count
    THEN LET v0 == idx_at(idx, i, base)
             v1 == idx_at(idx, i + 1, base)
             pv == IF last_provoking THEN v1 ELSE v0
         IN  rewrite_lines_loop_step_one(emit_line_pv(r, v0, v1, pv), idx, base,
                                         count, last_provoking, i + 1)
    ELSE r

RECURSIVE rewrite_lines_loop(_, _, _, _, _, _)
rewrite_lines_loop(r, idx, base, count, last_provoking, i) ==
    IF i + 1 < count
    THEN LET v0 == idx_at(idx, i, base)
             v1 == idx_at(idx, i + 1, base)
             pv == IF last_provoking THEN v1 ELSE v0
         IN  rewrite_lines_loop(emit_line_pv(r, v0, v1, pv), idx, base, count,
                                last_provoking, i + 2)
    ELSE r

rewrite_lines(r, idx, base, count, last_provoking) ==
    rewrite_lines_loop(r, idx, base, count, last_provoking, 0)

RECURSIVE rewrite_line_strip_loop(_, _, _, _, _, _)
rewrite_line_strip_loop(r, idx, base, count, last_provoking, i) ==
    IF i + 1 < count
    THEN LET v0 == idx_at(idx, i, base)
             v1 == idx_at(idx, i + 1, base)
             pv == IF last_provoking THEN v1 ELSE v0
         IN  rewrite_line_strip_loop(emit_line_pv(r, v0, v1, pv), idx, base,
                                     count, last_provoking, i + 1)
    ELSE r

rewrite_line_strip(r, idx, base, count, last_provoking) ==
    rewrite_line_strip_loop(r, idx, base, count, last_provoking, 0)

RECURSIVE rewrite_line_loop_loop(_, _, _, _, _, _)
rewrite_line_loop_loop(r, idx, base, count, last_provoking, i) ==
    IF i + 1 < count
    THEN LET v0 == idx_at(idx, i, base)
             v1 == idx_at(idx, i + 1, base)
             pv == IF last_provoking THEN v1 ELSE v0
         IN  rewrite_line_loop_loop(emit_line_pv(r, v0, v1, pv), idx, base,
                                    count, last_provoking, i + 1)
    ELSE r

rewrite_line_loop(r, idx, base, count, last_provoking) ==
    IF count < 2
    THEN r
    ELSE LET r1 == rewrite_line_loop_loop(r, idx, base, count, last_provoking, 0)
             v_last == idx_at(idx, count - 1, base)
             v_first == idx_at(idx, 0, base)
             pv == IF last_provoking THEN v_first ELSE v_last
         IN  emit_line_pv(r1, v_last, v_first, pv)

RECURSIVE rewrite_triangles_loop(_, _, _, _, _, _)
rewrite_triangles_loop(r, idx, base, count, last_provoking, i) ==
    IF i + 2 < count
    THEN LET v0 == idx_at(idx, i, base)
             v1 == idx_at(idx, i + 1, base)
             v2 == idx_at(idx, i + 2, base)
             pv == IF last_provoking THEN v2 ELSE v0
         IN  rewrite_triangles_loop(emit_tri_pv(r, v0, v1, v2, pv), idx, base,
                                    count, last_provoking, i + 3)
    ELSE r

\* mutant: the provoking-vertex flag is dropped, no triple is rotated
rewrite_triangles_flag_dropped(r, idx, base, count, last_provoking) ==
    rewrite_triangles_loop(r, idx, base, count, FALSE, 0)

rewrite_triangles(r, idx, base, count, last_provoking) ==
    rewrite_triangles_loop(r, idx, base, count, last_provoking, 0)

\* mutant: the odd triangles are not swapped
RECURSIVE rewrite_triangle_strip_loop_no_swap(_, _, _, _, _, _)
rewrite_triangle_strip_loop_no_swap(r, idx, base, count, last_provoking, i) ==
    IF i + 2 < count
    THEN LET v0 == idx_at(idx, i, base)
             v1 == idx_at(idx, i + 1, base)
             v2 == idx_at(idx, i + 2, base)
             pv == IF last_provoking THEN v2 ELSE v0
         IN  rewrite_triangle_strip_loop_no_swap(
                 emit_tri_pv(r, v0, v1, v2, pv), idx, base, count,
                 last_provoking, i + 1)
    ELSE r

RECURSIVE rewrite_triangle_strip_loop(_, _, _, _, _, _)
rewrite_triangle_strip_loop(r, idx, base, count, last_provoking, i) ==
    IF i + 2 < count
    THEN LET v0 == idx_at(idx, i, base)
             v1 == idx_at(idx, i + 1, base)
             v2 == idx_at(idx, i + 2, base)
             pv == IF last_provoking THEN v2 ELSE v0
             r1 == IF i % 2 = 1 THEN emit_tri_pv(r, v1, v0, v2, pv)
                                ELSE emit_tri_pv(r, v0, v1, v2, pv)
         IN  rewrite_triangle_strip_loop(r1, idx, base, count, last_provoking,
                                         i + 1)
    ELSE r

rewrite_triangle_strip(r, idx, base, count, last_provoking) ==
    rewrite_triangle_strip_loop(r, idx, base, count, last_provoking, 0)

RECURSIVE rewrite_triangle_fan_loop(_, _, _, _, _, _, _)
rewrite_triangle_fan_loop(r, idx, base, count, last_provoking, hub, i) ==
    IF i + 2 < count
    THEN LET v1 == idx_at(idx, i + 1, base)
             v2 == idx_at(idx, i + 2, base)
             pv == IF last_provoking THEN v2 ELSE v1
         IN  rewrite_triangle_fan_loop(emit_tri_pv(r, hub, v1, v2, pv), idx,
                                       base, count, last_provoking, hub, i + 1)
    ELSE r

\* mutant: the hub is read one position late
rewrite_triangle_fan_hub_late(r, idx, base, count, last_provoking) ==
    IF count < 3
    THEN r
    ELSE rewrite_triangle_fan_loop(r, idx, base, count, last_provoking,
                                   idx_at(idx, 1, base), 0)

rewrite_triangle_fan(r, idx, base, count, last_provoking) ==
    IF count < 3
    THEN r
    ELSE rewrite_triangle_fan_loop(r, idx, base, count, last_provoking,
                                   idx_at(idx, 0, base), 0)

\* mutant: the hardware diagonal v0-v2 also when flat-shaded
RECURSIVE rewrite_quads_loop_one_diagonal(_, _, _, _, _, _)
rewrite_quads_loop_one_diagonal(r, idx, base, count, flat_shading, i) ==
    IF i + 3 < count
    THEN LET v0 == idx_at(idx, i, base)
             v1 == idx_at(idx, i + 1, base)
             v2 == idx_at(idx, i + 2, base)
             v3 == idx_at(idx, i + 3, base)
             r1 == emit_tri(emit_tri(r, v0, v1, v2), v0, v2, v3)
         IN  rewrite_quads_loop_one_diagonal(r1, idx, base, count, flat_shading, i + 4)
    ELSE r

RECURSIVE rewrite_quads_loop(_, _, _, _, _, _)
rewrite_quads_loop(r, idx, base, count, flat_shading, i) ==
    IF i + 3 < count
    THEN LET v0 == idx_at(idx, i, base)
             v1 == idx_at(idx, i + 1, base)
             v2 == idx_at(idx, i + 2, base)
             v3 == idx_at(idx, i + 3, base)
             r1 == IF flat_shading
                   THEN emit_tri(emit_tri(r, v3, v0, v1), v3, v1, v2)
                   ELSE emit_tri(emit_tri(r, v0, v1, v2), v0, v2, v3)
         IN  rewrite_quads_loop(r1, idx, base, count, flat_shading, i + 4)
    ELSE r

rewrite_quads(r, idx, base, count, flat_shading) ==
    rewrite_quads_loop(r, idx, base, count, flat_shading, 0)

RECURSIVE rewrite_quads_line_loop(_, _, _, _, _)
rewrite_quads_line_loop(r, idx, base, count, i) ==
    IF i + 3 < count
    THEN LET v0 == idx_at(idx, i, base)
             v1 == idx_at(idx, i + 1, base)
             v2 == idx_at(idx, i + 2, base)
             v3 == idx_at(idx, i + 3, base)
             r1 == emit_line(emit_line(emit_line(emit_line(r, v0, v1),
                                                 v1, v2), v2, v3), v3, v0)
         IN  rewrite_quads_line_loop(r1, idx, base, count, i + 4)
    ELSE r

rewrite_quads_line(r, idx, base, count) ==
    rewrite_quads_line_loop(r, idx, base, count, 0)

RECURSIVE rewrite_quad_strip_loop(_, _, _, _, _, _)
rewrite_quad_strip_loop(r, idx, base, count, flat_shading, i) ==
    IF i + 3 < count
    THEN LET v0 == idx_at(idx, i, base)
             v1 == idx_at(idx, i + 1, base)
             v2 == idx_at(idx, i + 2, base)
             v3 == idx_at(idx, i + 3, base)
             r1 == IF flat_shading
                   THEN emit_tri(emit_tri(r, v3, v2, v0), v3, v0, v1)
                   ELSE emit_tri(emit_tri(r, v0, v1, v2), v2, v1, v3)
         IN  rewrite_quad_strip_loop(r1, idx, base, count, flat_shading, i + 2)
    ELSE r

rewrite_quad_strip(r, idx, base, count, flat_shading) ==
    IF count < 4
    THEN r
    ELSE rewrite_quad_strip_loop(r, idx, base, count, flat_shading, 0)

RECURSIVE rewrite_quad_strip_line_loop(_, _, _, _, _)
rewrite_quad_strip_line_loop(r, idx, base, count, i) ==
    IF i + 3 < count
    THEN LET v0 == idx_at(idx, i, base)
             v1 == idx_at(idx, i + 1, base)
             v2 == idx_at(idx, i + 2, base)
             v3 == idx_at(idx, i + 3, base)
             r1 == emit_line(emit_line(emit_line(emit_line(r, v0, v1),
                                                 v1, v3), v3, v2), v2, v0)
         IN  rewrite_quad_strip_line_loop(r1, idx, base, count, i + 2)
    ELSE r

rewrite_quad_strip_line(r, idx, base, count) ==
    IF count < 4
    THEN r
    ELSE rewrite_quad_strip_line_loop(r, idx, base, count, 0)

RECURSIVE rewrite_polygon_loop(_, _, _, _, _, _)
rewrite_polygon_loop(r, idx, base, count, hub, i) ==
    IF i + 2 < count
    THEN LET v1 == idx_at(idx, i + 1, base)
             v2 == idx_at(idx, i + 2, base)
         IN  rewrite_polygon_loop(emit_tri(r, hub, v1, v2), idx, base, count,
                                  hub, i + 1)
    ELSE r

\* mutant: the polygon is rotated to a provoking vertex as a fan is
rewrite_polygon_as_fan(r, idx, base, count) ==
    rewrite_triangle_fan(r, idx, base, count, FALSE)

rewrite_polygon(r, idx, base, count) ==
    IF count < 3
    THEN r
    ELSE rewrite_polygon_loop(r, idx, base, count, idx_at(idx, 0, base), 0)

RECURSIVE rewrite_polygon_line_loop(_, _, _, _, _)
rewrite_polygon_line_loop(r, idx, base, count, i) ==
    IF i + 1 < count
    THEN rewrite_polygon_line_loop(
             emit_line(r, idx_at(idx, i, base), idx_at(idx, i + 1, base)),
             idx, base, count, i + 1)
    ELSE r

\* mutant: the outline is left open, the closing line forgotten
rewrite_polygon_line_open(r, idx, base, count) ==
    IF count < 2
    THEN r
    ELSE rewrite_polygon_line_loop(r, idx, base, count, 0)

rewrite_polygon_line(r, idx, base, count) ==
    IF count < 2
    THEN r
    ELSE emit_line(rewrite_polygon_line_loop(r, idx, base, count, 0),
                   idx_at(idx, count - 1, base), idx_at(idx, 0, base))

\* The primitive modes rewrite_indices has a case for; any other mode ends
\* in assert(!"Unexpected primitive mode").
RewritableModes == PrimitiveModes \ { "PRIM_TYPE_POINTS" }

rewrite_indices(r, mode, idx, base, num_indices) ==
    CASE mode.primitive_mode = "PRIM_TYPE_LINES" ->
            rewrite_lines(r, idx, base, num_indices, mode.last_provoking)
      [] mode.primitive_mode = "PRIM_TYPE_LINE_STRIP" ->
            rewrite_line_strip(r, idx, base, num_indices, mode.last_provoking)
      [] mode.primitive_mode = "PRIM_TYPE_LINE_LOOP" ->
            rewrite_line_loop(r, idx, base, num_indices, mode.last_provoking)
      [] mode.primitive_mode = "PRIM_TYPE_TRIANGLES" ->
            rewrite_triangles(r, idx, base, num_indices, mode.last_provoking)
      [] mode.primitive_mode = "PRIM_TYPE_TRIANGLE_STRIP" ->
            rewrite_triangle_strip(r, idx, base, num_indices, mode.last_provoking)
      [] mode.primitive_mode = "PRIM_TYPE_TRIANGLE_FAN" ->
            rewrite_triangle_fan(r, idx, base, num_indices, mode.last_provoking)
      [] mode.primitive_mode = "PRIM_TYPE_QUADS" ->
            IF mode.polygon_mode = "POLY_MODE_LINE"
            THEN rewrite_quads_line(r, idx, base, num_indices)
            ELSE rewrite_quads(r, idx, base, num_indices, mode.flat_shading)
      [] mode.primitive_mode = "PRIM_TYPE_QUAD_STRIP" ->
            IF mode.polygon_mode = "POLY_MODE_LINE"
            THEN rewrite_quad_strip_line(r, idx, base, num_indices)
            ELSE rewrite_quad_strip(r, idx, base, num_indices, mode.flat_shading)
      [] mode.primitive_mode = "PRIM_TYPE_POLYGON" ->
            IF mode.polygon_mode = "POLY_MODE_LINE"
            THEN rewrite_polygon_line(r, idx, base, num_indices)
            ELSE rewrite_polygon(r, idx, base, num_indices)
      [] OTHER -> r

(***************************************************************************)
(* Entry points.  Each yields the set of possible outcomes                 *)
(* [buf, result, status] of one call: buf is the scratch buffer            *)
(* afterwards, result the PrimRewrite returned, status "assert_failed"     *)
(* when an assert() stopped the program before the call returned.          *)
(***************************************************************************)
EmptyResult == [ indices |-> NULL, num_indices |-> 0, data |-> << >> ]

mode_assert(mode) ==
    mode.polygon_mode # "POLY_MODE_POINT" \/ mode.primitive_mode # "PRIM_TYPE_POLYGON"

RECURSIVE total_max_output_loop(_, _, _, _, _)
total_max_output_loop(total, mode, counts, num_ranges, r) ==
    IF r < num_ranges
    THEN total_max_output_loop(
             total + max_output_indices(mode.primitive_mode, mode.polygon_mode,
                                        counts[r + 1]),
             mode, counts, num_ranges, r + 1)
    ELSE total

\* mutant: every range is read from the start of the first range
RECURSIVE rewrite_ranges_loop_first_start(_, _, _, _, _, _)
rewrite_ranges_loop_first_start(res, mode, starts, counts, num_ranges, r) ==
    IF r < num_ranges
    THEN IF counts[r + 1] = 0
         THEN rewrite_ranges_loop_first_start(res, mode, starts, counts,
                                              num_ranges, r + 1)
         ELSE rewrite_ranges_loop_first_start(
                  rewrite_indices(res, mode, NullIdx, starts[1], counts[r + 1]),
                  mode, starts, counts, num_ranges, r + 1)
    ELSE res

\* mutant: a range of count zero ends the loop (break for continue)
RECURSIVE rewrite_ranges_loop_break_on_empty(_, _, _, _, _, _)
rewrite_ranges_loop_break_on_empty(res, mode, starts, counts, num_ranges, r) ==
    IF r < num_ranges
    THEN IF counts[r + 1] = 0
         THEN res
         ELSE rewrite_ranges_loop_break_on_empty(
                  rewrite_indices(res, mode, NullIdx, starts[r + 1], counts[r + 1]),
                  mode, starts, counts, num_ranges, r + 1)
    ELSE res

RECURSIVE rewrite_ranges_loop(_, _, _, _, _, _)
rewrite_ranges_loop(res, mode, starts, counts, num_ranges, r) ==
    IF r < num_ranges
    THEN IF counts[r + 1] = 0
         THEN rewrite_ranges_loop(res, mode, starts, counts, num_ranges, r + 1)
         ELSE rewrite_ranges_loop(
                  rewrite_indices(res, mode, NullIdx, starts[r + 1], counts[r + 1]),
                  mode, starts, counts, num_ranges, r + 1)
    ELSE res

\* mutant: no early return when the computed maximum output size is zero
ranges_without_zero_return(buf, mode, starts, counts, num_ranges) ==
    IF ~mode_assert(mode)
    THEN { [ buf |-> buf, result |-> EmptyResult, status |-> "assert_failed" ] }
    ELSE IF ~needs_rewrite(mode)
    THEN { [ buf |-> buf, result |-> EmptyResult, status |-> "ok" ] }
    ELSE LET total_max_output ==
                 total_max_output_loop(0, mode, counts, num_ranges, 0)
         IN  { [ buf |-> b,
                 result |-> rewrite_ranges_loop(
                                [ EmptyResult EXCEPT !.indices = b.data ],
                                mode, starts, counts, num_ranges, 0),
                 status |-> "ok" ] :
               b \in ensure_capacity(buf, total_max_output) }

pgraph_prim_rewrite_ranges(buf, mode, starts, counts, num_ranges) ==
    IF ~mode_assert(mode)
    THEN { [ buf |-> buf, result |-> EmptyResult, status |-> "assert_failed" ] }
    ELSE IF ~needs_rewrite(mode)
    THEN { [ buf |-> buf, result |-> EmptyResult, status |-> "ok" ] }
    ELSE LET total_max_output ==
                 total_max_output_loop(0, mode, counts, num_ranges, 0)
         IN  IF total_max_output = 0
             THEN { [ buf |-> buf, result |-> EmptyResult, status |-> "ok" ] }
             ELSE { [ buf |-> b,
                      result |-> rewrite_ranges_loop(
                                     [ EmptyResult EXCEPT !.indices = b.data ],
                                     mode, starts, counts, num_ranges, 0),
                      status |-> IF mode.primitive_mode \in RewritableModes
                                 THEN "ok" ELSE "assert_failed" ] :
                    b \in ensure_capacity(buf, total_max_output) }

\* mutant: a rewrite that wrote nothing returns the empty result
indexed_null_when_nothing_written(buf, mode, input_indices, num_input_indices) ==
    IF ~mode_assert(mode)
    THEN { [ buf |-> buf, result |-> EmptyResult, status |-> "assert_failed" ] }
    ELSE IF ~needs_rewrite(mode)
    THEN { [ buf |-> buf, result |-> EmptyResult, status |-> "ok" ] }
    ELSE LET max_output ==
                 max_output_indices(mode.primitive_mode, mode.polygon_mode,
                                    num_input_indices)
         IN  IF max_output = 0
             THEN { [ buf |-> buf, result |-> EmptyResult, status |-> "ok" ] }
             ELSE { [ buf |-> b,
                      result |->
                          LET res == rewrite_indices(
                                         [ EmptyResult EXCEPT !.indices = b.data ],
                                         mode, ArrayIdx(input_indices), 0,
                                         num_input_indices)
                          IN  IF res.num_indices = 0 THEN EmptyResult ELSE res,
                      status |-> IF mode.primitive_mode \in RewritableModes
                                 THEN "ok" ELSE "assert_failed" ] :
                    b \in ensure_capacity(buf, max_output) }

\* mutant: the count is not reset, the call writes after an index an
\* earlier call left in the buffer
indexed_without_reset(buf, mode, input_indices, num_input_indices) ==
    IF ~mode_assert(mode)
    THEN { [ buf |-> buf, result |-> EmptyResult, status |-> "assert_failed" ] }
    ELSE IF ~needs_rewrite(mode)
    THEN { [ buf |-> buf, result |-> EmptyResult, status |-> "ok" ] }
    ELSE LET max_output ==
                 max_output_indices(mode.primitive_mode, mode.polygon_mode,
                                    num_input_indices)
             left == IF buf.data # NULL
                     THEN [ indices |-> NULL, num_indices |-> 1, data |-> << 0 >> ]
                     ELSE EmptyResult
         IN  IF max_output = 0
             THEN { [ buf |-> buf, result |-> EmptyResult, status |-> "ok" ] }
             ELSE { [ buf |-> b,
                      result |-> rewrite_indices(
                                     [ left EXCEPT !.indices = b.data ],
                                     mode, ArrayIdx(input_indices), 0,
                                     num_input_indices),
                      status |-> IF mode.primitive_mode \in RewritableModes
                                 THEN "ok" ELSE "assert_failed" ] :
                    b \in ensure_capacity(buf, max_output + 1) }

pgraph_prim_rewrite_indexed(buf, mode, input_indices, num_input_indices) ==
    IF ~mode_assert(mode)
    THEN { [ buf |-> buf, result |-> EmptyResult, status |-> "assert_failed" ] }
    ELSE IF ~needs_rewrite(mode)
    THEN { [ buf |-> buf, result |-> EmptyResult, status |-> "ok" ] }
    ELSE LET max_output ==
                 max_output_indices(mode.primitive_mode, mode.polygon_mode,
                                    num_input_indices)
         IN  IF max_output = 0
             THEN { [ buf |-> buf, result |-> EmptyResult, status |-> "ok" ] }
             ELSE { [ buf |-> b,
                      result |-> rewrite_indices(
                                     [ EmptyResult EXCEPT !.indices = b.data ],
                                     mode, ArrayIdx(input_indices), 0,
                                     num_input_indices),
                      status |-> IF mode.primitive_mode \in RewritableModes
                                 THEN "ok" ELSE "assert_failed" ] :
                    b \in ensure_capacity(buf, max_output) }

(***************************************************************************)
(* Storage buffers (pgraph/vk/buffer.c).  A StorageBuffer is modelled by   *)
(* [alloc_info, buffer_size, buffer_offset, buffer, allocation, mapped]:   *)
(* buffer, allocation and mapped tell whether the handle or pointer is     *)
(* non-null; sizes are scaled down to a few bytes, the bump arithmetic     *)
(* being the same at every size.                                           *)
(***************************************************************************)
\* scaled-down buffer_size of the storage buffers
StorageBufferSize == 6
\* most chunks in one append
MaxChunks == 2
\* largest chunk of an append
MaxChunkSize == 3

\* alignments the callers pass (powers of two)
Alignments == {1, 2, 4}

\* the storage buffers in the order of their indices 0..BUFFER_COUNT-1
buffer_enum ==
    << "BUFFER_STAGING_DST", "BUFFER_STAGING_SRC", "BUFFER_COMPUTE_DST",
       "BUFFER_COMPUTE_SRC", "BUFFER_INDEX", "BUFFER_INDEX_STAGING",
       "BUFFER_VERTEX_RAM", "BUFFER_VERTEX_INLINE",
       "BUFFER_VERTEX_INLINE_STAGING", "BUFFER_UNIFORM",
       "BUFFER_UNIFORM_STAGING" >>

BUFFER_COUNT == Len(buffer_enum)

buffer_names == { buffer_enum[i] : i \in 1..BUFFER_COUNT }

\* mutant: the device-local index buffer is mapped as well
buffers_to_map_with_index ==
    << "BUFFER_VERTEX_RAM", "BUFFER_INDEX_STAGING",
       "BUFFER_VERTEX_INLINE_STAGING", "BUFFER_UNIFORM_STAGING", "BUFFER_INDEX" >>

\* the array buffers_to_map[] of pgraph_vk_init_buffers, in its order
buffers_to_map_array ==
    << "BUFFER_VERTEX_RAM", "BUFFER_INDEX_STAGING",
       "BUFFER_VERTEX_INLINE_STAGING", "BUFFER_UNIFORM_STAGING" >>

buffers_to_map ==
    { buffers_to_map_array[i] : i \in 1..Len(buffers_to_map_array) }

\* the buffers the model appends to and queries: one mapped, one not
ExercisedBuffers == { "BUFFER_INDEX_STAGING", "BUFFER_INDEX" }

\* ROUND_UP(n, d) of qemu/osdep.h: n rounded up to a multiple of d
ROUND_UP(n, d) == ((n + d - 1) \div d) * d

\* mutant: the capacity check made on the offset as it is, not aligned
has_space_for_unaligned(sb, index, size, alignment) ==
    sb[index].buffer_offset + size <= sb[index].buffer_size

pgraph_vk_buffer_has_space_for(sb, index, size, alignment) ==
    ROUND_UP(sb[index].buffer_offset, alignment) + size <= sb[index].buffer_size

RECURSIVE total_size_loop(_, _, _, _)
total_size_loop(total_size, sizes, count, i) ==
    IF i < count
    THEN total_size_loop(total_size + sizes[i + 1], sizes, count, i + 1)
    ELSE total_size

\* mutant: the offset is set to the chunk size, not advanced by it
RECURSIVE append_copy_loop_offset_set(_, _, _, _, _)
append_copy_loop_offset_set(st, sizes, count, alignment, i) ==
    IF i < count
    THEN LET off == ROUND_UP(st.b.buffer_offset, alignment)
         IN  append_copy_loop_offset_set(
                 [ b |-> [ st.b EXCEPT !.buffer_offset = sizes[i + 1] ],
                   copies |-> Append(st.copies,
                                     [ offset |-> off, size |-> sizes[i + 1] ]) ],
                 sizes, count, alignment, i + 1)
    ELSE st

\* The copy loop of pgraph_vk_append_to_buffer on StorageBuffer b: st is
\* [b, copies], copies listing the (offset, size) of every memcpy made.
RECURSIVE append_copy_loop(_, _, _, _, _)
append_copy_loop(st, sizes, count, alignment, i) ==
    IF i < count
    THEN LET off == ROUND_UP(st.b.buffer_offset, alignment)
         IN  append_copy_loop(
                 [ b |-> [ st.b EXCEPT !.buffer_offset = off + sizes[i + 1] ],
                   copies |-> Append(st.copies,
                                     [ offset |-> off, size |-> sizes[i + 1] ]) ],
                 sizes, count, alignment, i + 1)
    ELSE st

\* a memcpy that writes a byte outside the mapped region [0, buffer_size)
CopyOutOfBounds(b, copies) ==
    \E k \in 1..Len(copies) :
        copies[k].size > 0 /\ copies[k].offset + copies[k].size > b.buffer_size

\* mutant: no assert that the chunks fit
append_without_space_assert(sb, index, sizes, count, alignment) ==
    IF ~sb[index].mapped
    THEN { [ sb |-> sb, starting_offset |-> 0, copies |-> << >>,
             status |-> "assert_failed" ] }
    ELSE LET st == append_copy_loop([ b |-> sb[index], copies |-> << >> ],
                                    sizes, count, alignment, 0)
         IN  { [ sb |-> [ sb EXCEPT ![index] = st.b ],
                 starting_offset |-> ROUND_UP(sb[index].buffer_offset, alignment),
                 copies |-> st.copies,
                 status |-> s ] :
               s \in IF CopyOutOfBounds(sb[index], st.copies)
                     THEN { "ok", "crashed" } ELSE { "ok" } }

\* mutant: no assert that the buffer is mapped; the copies go through the
\* null pointer
append_without_mapped_assert(sb, index, sizes, count, alignment) ==
    IF ~pgraph_vk_buffer_has_space_for(sb, index,
                                       total_size_loop(0, sizes, count, 0), alignment)
    THEN { [ sb |-> sb, starting_offset |-> 0, copies |-> << >>,
             status |-> "assert_failed" ] }
    ELSE LET st == append_copy_loop([ b |-> sb[index], copies |-> << >> ],
                                    sizes, count, alignment, 0)
         IN  { [ sb |-> [ sb EXCEPT ![index] = st.b ],
                 starting_offset |-> ROUND_UP(sb[index].buffer_offset, alignment),
                 copies |-> st.copies,
                 status |-> s ] :
               s \in IF CopyOutOfBounds(sb[index], st.copies) \/ ~sb[index].mapped
                     THEN { "ok", "crashed" } ELSE { "ok" } }

\* The set of outcomes [sb, starting_offset, copies, status] of one append.
\* A memcpy past the end of the mapping is undefined behaviour: the call
\* may crash or return.
pgraph_vk_append_to_buffer(sb, index, sizes, count, alignment) ==
    LET total_size == total_size_loop(0, sizes, count, 0)
        stopped == { [ sb |-> sb, starting_offset |-> 0, copies |-> << >>,
                       status |-> "assert_failed" ] }
    IN  IF ~pgraph_vk_buffer_has_space_for(sb, index, total_size, alignment)
        THEN stopped
        ELSE IF ~sb[index].mapped
        THEN stopped
        ELSE LET starting_offset == ROUND_UP(sb[index].buffer_offset, alignment)
                 st == append_copy_loop([ b |-> sb[index], copies |-> << >> ],
                                        sizes, count, alignment, 0)
             IN  { [ sb |-> [ sb EXCEPT ![index] = st.b ],
                     starting_offset |-> starting_offset,
                     copies |-> st.copies,
                     status |-> s ] :
                   s \in IF CopyOutOfBounds(sb[index], st.copies)
                         THEN { "ok", "crashed" } ELSE { "ok" } }

(***************************************************************************)
(* Creation and teardown of the buffer set.  r is the renderer state       *)
(* [storage_buffers, uploaded_bitmap, bitmap_size, prim_rewrite_buf];      *)
(* fail names the one library call that fails during a creation:           *)
(* [kind |-> "create", at |-> i] the vmaCreateBuffer of buffer i,          *)
(* [kind |-> "map", at |-> i] the vmaMapMemory of buffers_to_map[i],       *)
(* "bitmap" the bitmap_new, "none" no call.                                *)
(***************************************************************************)
NoFailure == [ kind |-> "none", at |-> 0 ]

FailurePoints ==
    { NoFailure, [ kind |-> "bitmap", at |-> 0 ] }
    \cup { [ kind |-> "create", at |-> i ] : i \in 0..(BUFFER_COUNT - 1) }
    \cup { [ kind |-> "map", at |-> i ] : i \in 0..(Len(buffers_to_map_array) - 1) }

\* the buffers described with host_alloc_create_info
alloc_info_of(name) ==
    IF name \in { "BUFFER_STAGING_DST", "BUFFER_STAGING_SRC",
                  "BUFFER_INDEX_STAGING", "BUFFER_VERTEX_RAM",
                  "BUFFER_VERTEX_INLINE_STAGING", "BUFFER_UNIFORM_STAGING" }
    THEN "host_alloc_create_info"
    ELSE "device_alloc_create_info"

\* the compound literal assigned to storage_buffers[name]: every field it
\* does not name is zero
storage_buffer_literal(name) ==
    [ alloc_info |-> alloc_info_of(name), buffer_size |-> StorageBufferSize,
      buffer_offset |-> 0, buffer |-> FALSE, allocation |-> FALSE,
      mapped |-> FALSE ]

\* the renderer state before the first creation: zeroed
ZeroedStorageBuffer ==
    [ alloc_info |-> "unset", buffer_size |-> 0, buffer_offset |-> 0,
      buffer |-> FALSE, allocation |-> FALSE, mapped |-> FALSE ]

create_buffer(buffer, fails) ==
    IF fails
    THEN [ buffer |-> buffer, ok |-> FALSE ]
    ELSE [ buffer |-> [ buffer EXCEPT !.buffer = TRUE, !.allocation = TRUE ],
           ok |-> TRUE ]

destroy_buffer(buffer) ==
    IF ~buffer.buffer /\ ~buffer.allocation
    THEN [ buffer |-> buffer, destroyed |-> FALSE ]
    ELSE [ buffer |-> [ buffer EXCEPT !.buffer = FALSE, !.allocation = FALSE ],
           destroyed |-> TRUE ]

\* the loop creating the buffers: [sb, ok]
RECURSIVE init_create_loop(_, _, _)
init_create_loop(sb, fail, i) ==
    IF i < BUFFER_COUNT
    THEN LET name == buffer_enum[i + 1]
             c == create_buffer(sb[name], fail.kind = "create" /\ fail.at = i)
         IN  IF ~c.ok
             THEN [ sb |-> sb, ok |-> FALSE ]
             ELSE init_create_loop([ sb EXCEPT ![name] = c.buffer ], fail, i + 1)
    ELSE [ sb |-> sb, ok |-> TRUE ]

\* the loop mapping buffers_to_map: [sb, ok].  A vmaMapMemory that fails
\* leaves the mapped pointer as it was, null.
RECURSIVE init_map_loop(_, _, _)
init_map_loop(sb, fail, i) ==
    IF i < Len(buffers_to_map_array)
    THEN LET idx == buffers_to_map_array[i + 1]
         IN  IF fail.kind = "map" /\ fail.at = i
             THEN [ sb |-> sb, ok |-> FALSE ]
             ELSE init_map_loop([ sb EXCEPT ![idx].mapped = TRUE ], fail, i + 1)
    ELSE [ sb |-> sb, ok |-> TRUE ]

\* mutant: the unwinding unmaps but leaves the mapped pointers set
RECURSIVE init_fail_loop_keeps_mapped(_, _)
init_fail_loop_keeps_mapped(st, i) ==
    IF i < BUFFER_COUNT
    THEN LET name == buffer_enum[i + 1]
             b == st.sb[name]
             d == destroy_buffer(b)
         IN  init_fail_loop_keeps_mapped(
                 [ sb |-> [ st.sb EXCEPT ![name] = d.buffer ],
                   unmapped |-> IF b.mapped THEN Append(st.unmapped, name)
                                ELSE st.unmapped,
                   destroyed |-> IF d.destroyed THEN Append(st.destroyed, name)
                                 ELSE st.destroyed ],
                 i + 1)
    ELSE st

\* the loop under the label fail: st is [sb, unmapped, destroyed], the
\* last two listing the buffers given to vmaUnmapMemory and vmaDestroyBuffer
RECURSIVE init_fail_loop(_, _)
init_fail_loop(st, i) ==
    IF i < BUFFER_COUNT
    THEN LET name == buffer_enum[i + 1]
             b == st.sb[name]
             b1 == IF b.mapped THEN [ b EXCEPT !.mapped = FALSE ] ELSE b
             d == destroy_buffer(b1)
         IN  init_fail_loop(
                 [ sb |-> [ st.sb EXCEPT ![name] = d.buffer ],
                   unmapped |-> IF b.mapped THEN Append(st.unmapped, name)
                                ELSE st.unmapped,
                   destroyed |-> IF d.destroyed THEN Append(st.destroyed, name)
                                 ELSE st.destroyed ],
                 i + 1)
    ELSE st

\* The outcome [r, ok, unmapped, destroyed] of one creation.  The first
\* seven buffers are described before the bitmap is allocated, the last
\* four after it; the bitmap has one bit for every (scaled) byte of the
\* video memory, the size of BUFFER_VERTEX_RAM.
pgraph_vk_init_buffers(r, fail) ==
    LET described1 == [ name \in buffer_names |->
                          IF \E i \in 1..7 : buffer_enum[i] = name
                          THEN storage_buffer_literal(name)
                          ELSE r.storage_buffers[name] ]
        described == [ name \in buffer_names |-> storage_buffer_literal(name) ]
        size == described1["BUFFER_VERTEX_RAM"].buffer_size
        bitmap == CHOOSE a \in Addresses : TRUE
        created == init_create_loop(described, fail, 0)
        mapped == init_map_loop(created.sb, fail, 0)
        failed == init_fail_loop(
                      [ sb |-> IF created.ok THEN mapped.sb ELSE created.sb,
                        unmapped |-> << >>, destroyed |-> << >> ], 0)
    IN  IF fail.kind = "bitmap"
        THEN [ r |-> [ r EXCEPT !.storage_buffers = described1,
                                !.bitmap_size = size,
                                !.uploaded_bitmap = NULL ],
               ok |-> FALSE, unmapped |-> << >>, destroyed |-> << >> ]
        ELSE IF created.ok /\ mapped.ok
        THEN [ r |-> [ storage_buffers |-> mapped.sb,
                       uploaded_bitmap |-> bitmap,
                       bitmap_size |-> size,
                       prim_rewrite_buf |-> pgraph_prim_rewrite_init ],
               ok |-> TRUE, unmapped |-> << >>, destroyed |-> << >> ]
        ELSE [ r |-> [ r EXCEPT !.storage_buffers = failed.sb,
                                !.uploaded_bitmap = NULL,
                                !.bitmap_size = 0 ],
               ok |-> FALSE, unmapped |-> failed.unmapped,
               destroyed |-> failed.destroyed ]

(***************************************************************************)
(* The sizes of the buffers.  The creation above is scaled: every buffer   *)
(* has StorageBufferSize bytes, small enough to be filled.  The operators  *)
(* below compute the sizes in bytes as the code does, from the size of     *)
(* the video memory and the platform the build is for.                     *)
(***************************************************************************)
mib == 1024 * 1024

\* the fixed emulator constants the sizes of the index and inline vertex
\* buffers are written with
NV2A_VERTEXSHADER_ATTRIBUTES == 16
NV2A_MAX_BATCH_LENGTH == 131071
sizeof_float == 4
sizeof_inline_elements == NV2A_MAX_BATCH_LENGTH * 4

staging_size(vram_size) ==
    IF vram_size < 16 * mib THEN 16 * mib ELSE vram_size

\* mutant: the platform ceiling is not applied
compute_size_no_ceiling(vram_size, android) ==
    IF vram_size * 2 < 64 * mib THEN 64 * mib ELSE vram_size * 2

\* android tells that the build defines __ANDROID__
compute_size(vram_size, android) ==
    LET floored == IF vram_size * 2 < 64 * mib THEN 64 * mib ELSE vram_size * 2
    IN  IF android
        THEN IF floored > 64 * mib THEN 64 * mib ELSE floored
        ELSE IF floored > 256 * mib THEN 256 * mib ELSE floored

\* the .buffer_size of the compound literal assigned to storage_buffers[name]
RECURSIVE buffer_size_of(_, _, _)
buffer_size_of(name, vram_size, android) ==
    CASE name = "BUFFER_STAGING_DST" -> staging_size(vram_size)
      [] name = "BUFFER_STAGING_SRC" ->
            buffer_size_of("BUFFER_STAGING_DST", vram_size, android)
      [] name = "BUFFER_COMPUTE_DST" -> compute_size(vram_size, android)
      [] name = "BUFFER_COMPUTE_SRC" ->
            buffer_size_of("BUFFER_COMPUTE_DST", vram_size, android)
      [] name = "BUFFER_INDEX" -> sizeof_inline_elements * 100
      [] name = "BUFFER_INDEX_STAGING" ->
            buffer_size_of("BUFFER_INDEX", vram_size, android)
      [] name = "BUFFER_VERTEX_RAM" -> vram_size
      [] name = "BUFFER_VERTEX_INLINE" ->
            NV2A_VERTEXSHADER_ATTRIBUTES * NV2A_MAX_BATCH_LENGTH * 4
            * sizeof_float * 10
      [] name = "BUFFER_VERTEX_INLINE_STAGING" ->
            buffer_size_of("BUFFER_VERTEX_INLINE", vram_size, android)
      [] name = "BUFFER_UNIFORM" -> 8 * 1024 * 1024
      [] name = "BUFFER_UNIFORM_STAGING" ->
            buffer_size_of("BUFFER_UNIFORM", vram_size, android)

\* The outcome of one creation with the sizes in bytes: that of the scaled
\* creation, every buffer that was described carrying the size computed
\* for it and the bitmap one bit for every 4096 bytes of the video memory.
pgraph_vk_init_buffers_sized(r, fail, vram_size, android) ==
    LET out == pgraph_vk_init_buffers(r, fail)
        sb == out.r.storage_buffers
    IN  [ out EXCEPT
            !.r.storage_buffers =
                [ name \in buffer_names |->
                    IF sb[name].buffer_size = StorageBufferSize
                    THEN [ sb[name] EXCEPT
                             !.buffer_size = buffer_size_of(name, vram_size, android) ]
                    ELSE sb[name] ],
            !.r.bitmap_size = IF out.r.bitmap_size = StorageBufferSize
                              THEN vram_size \div 4096 ELSE out.r.bitmap_size ]

\* the loop of pgraph_vk_finalize_buffers: st is [sb, unmapped, destroyed,
\* stale], stale telling that vmaUnmapMemory was given a null allocation
RECURSIVE finalize_loop(_, _)
finalize_loop(st, i) ==
    IF i < BUFFER_COUNT
    THEN LET name == buffer_enum[i + 1]
             b == st.sb[name]
             d == destroy_buffer(b)
         IN  finalize_loop(
                 [ sb |-> [ st.sb EXCEPT ![name] = d.buffer ],
                   unmapped |-> IF b.mapped THEN Append(st.unmapped, name)
                                ELSE st.unmapped,
                   destroyed |-> IF d.destroyed THEN Append(st.destroyed, name)
                                 ELSE st.destroyed,
                   stale |-> st.stale \/ (b.mapped /\ ~b.allocation) ],
                 i + 1)
    ELSE st

\* The outcome [r, unmapped, destroyed, stale] of one teardown.
pgraph_vk_finalize_buffers(r) ==
    LET st == finalize_loop([ sb |-> r.storage_buffers, unmapped |-> << >>,
                              destroyed |-> << >>, stale |-> FALSE ], 0)
    IN  [ r |-> [ r EXCEPT
                    !.storage_buffers = st.sb,
                    !.prim_rewrite_buf = pgraph_prim_rewrite_finalize(r.prim_rewrite_buf),
                    !.uploaded_bitmap = NULL ],
          unmapped |-> st.unmapped, destroyed |-> st.destroyed,
          stale |-> st.stale ]

(***************************************************************************)
(* Inputs                                                                  *)
(***************************************************************************)
SeqsUpTo(S, n) == UNION { [ 1..k -> S ] : k \in 0..n }

\* the sequential indices start, start+1, ..., start+count-1
Iota(start, count) == [ i \in 1..count |-> start + i - 1 ]

Range == [ start : Starts, count : 0..MaxRangeCount ]

RangeLists ==
    SeqsUpTo(Range, MaxRanges)
    \cup { << [ start |-> s, count |-> n ] >> : s \in Starts, n \in 0..MaxCount }

\* index arrays with values that are not their own positions
SampleInputs == { << 10, 20, 30, 40 >>, << 5, 6, 7 >> }

ExplicitInputs ==
    { Iota(s, n) : s \in Starts, n \in 0..MaxCount }
    \cup SeqsUpTo(RepValues, MaxRepLen)
    \cup SampleInputs

LiveRange == [ start : {0}, count : 0..MaxLiveRangeCount ]

LiveRangeLists ==
    SeqsUpTo(LiveRange, MaxRanges)
    \cup { << [ start |-> s, count |-> n ] >> :
             s \in Starts, n \in 0..MaxLiveCount }

LiveExplicitInputs == { Iota(0, n) : n \in 0..MaxLiveCount }

ChunkSizes == SeqsUpTo(0..MaxChunkSize, MaxChunks)

starts_of(ranges) == [ k \in 1..Len(ranges) |-> ranges[k].start ]
counts_of(ranges) == [ k \in 1..Len(ranges) |-> ranges[k].count ]

(***************************************************************************)
(* State machine                                                           *)
(***************************************************************************)
NoCall ==
    [ entry |-> "none",
      mode |-> [ primitive_mode |-> "PRIM_TYPE_POINTS",
                 polygon_mode |-> "POLY_MODE_FILL",
                 last_provoking |-> FALSE, flat_shading |-> FALSE ],
      input_indices |-> << >>, ranges |-> << >>,
      output_mode |-> "PRIM_TYPE_POINTS" ]

NoBufOp ==
    [ op |-> "none", index |-> "BUFFER_INDEX_STAGING", sizes |-> << >>,
      size |-> 0, alignment |-> 1, has_space |-> FALSE, starting_offset |-> 0,
      copies |-> << >>, fail |-> NoFailure, ok |-> FALSE, unmapped |-> << >>,
      destroyed |-> << >>, freed_bitmap |-> FALSE,
      vram_size |-> 0, android |-> FALSE ]

\* the renderer state as the caller allocates it, before any creation
ZeroedState ==
    [ storage_buffers |-> [ i \in buffer_names |-> ZeroedStorageBuffer ],
      uploaded_bitmap |-> NULL, bitmap_size |-> 0,
      prim_rewrite_buf |-> pgraph_prim_rewrite_init ]

\* the state pgraph_vk_init_buffers leaves when it succeeds
Init ==
    /\ prim_rewrite_buf = pgraph_prim_rewrite_init
    /\ call = NoCall
    /\ result = EmptyResult
    /\ status = "ok"
    /\ LET r == pgraph_vk_init_buffers(ZeroedState, NoFailure).r
       IN  /\ storage_buffers = r.storage_buffers
           /\ uploaded_bitmap = r.uploaded_bitmap
           /\ bitmap_size = r.bitmap_size
    /\ bufop = NoBufOp

\* One draw: the caller asks pgraph_prim_rewrite_get_output_mode for the
\* primitive type to issue and calls pgraph_prim_rewrite_indexed with an
\* array drawn from Inputs.
RewriteIndexed(Inputs) ==
    /\ status = "ok"
    /\ call.entry = "none"
    /\ \E mode \in PrimAssemblyState, input_indices \in Inputs :
         \E out \in pgraph_prim_rewrite_indexed(prim_rewrite_buf, mode,
                                                input_indices, Len(input_indices)) :
           /\ prim_rewrite_buf' = out.buf
           /\ result' = out.result
           /\ status' = out.status
           /\ call' = [ entry |-> "indexed", mode |-> mode,
                        input_indices |-> input_indices, ranges |-> << >>,
                        output_mode |-> pgraph_prim_rewrite_get_output_mode(
                                            mode.primitive_mode, mode.polygon_mode) ]
    /\ UNCHANGED bufferVars

\* One draw: the same with pgraph_prim_rewrite_ranges and ranges drawn from
\* Inputs.
RewriteRanges(Inputs) ==
    /\ status = "ok"
    /\ call.entry = "none"
    /\ \E mode \in PrimAssemblyState, ranges \in Inputs :
         \E out \in pgraph_prim_rewrite_ranges(prim_rewrite_buf, mode,
                                               starts_of(ranges), counts_of(ranges),
                                               Len(ranges)) :
           /\ prim_rewrite_buf' = out.buf
           /\ result' = out.result
           /\ status' = out.status
           /\ call' = [ entry |-> "ranges", mode |-> mode,
                        input_indices |-> << >>, ranges |-> ranges,
                        output_mode |-> pgraph_prim_rewrite_get_output_mode(
                                            mode.primitive_mode, mode.polygon_mode) ]
    /\ UNCHANGED bufferVars

\* the caller has bound the returned indices to its draw and lets go of them
SubmitDraw ==
    /\ status = "ok"
    /\ call.entry # "none"
    /\ call' = NoCall
    /\ result' = EmptyResult
    /\ UNCHANGED <<prim_rewrite_buf, status, bufferVars>>

\* pgraph_prim_rewrite_finalize, after which the buffer is as initialised
Finalize ==
    /\ status = "ok"
    /\ call.entry = "none"
    /\ prim_rewrite_buf # pgraph_prim_rewrite_init
    /\ prim_rewrite_buf' = pgraph_prim_rewrite_finalize(prim_rewrite_buf)
    /\ UNCHANGED <<call, result, status, bufferVars>>

\* The buffer manager is asked about and appends to buffers of a set that
\* has been created and not torn down.
HasSpaceFor ==
    /\ status = "ok"
    /\ bufop.op = "none"
    /\ \E index \in ExercisedBuffers, size \in 0..(StorageBufferSize + 1),
          alignment \in Alignments :
         /\ storage_buffers[index].buffer
         /\ bufop' = [ NoBufOp EXCEPT
                      !.op = "has_space_for", !.index = index, !.size = size,
                      !.alignment = alignment,
                      !.has_space = pgraph_vk_buffer_has_space_for(
                                        storage_buffers, index, size, alignment) ]
    /\ UNCHANGED <<storage_buffers, status, rewriteVars, bitmapVars>>

AppendToBuffer ==
    /\ status = "ok"
    /\ bufop.op = "none"
    /\ \E index \in ExercisedBuffers, sizes \in ChunkSizes,
          alignment \in Alignments :
         \E out \in pgraph_vk_append_to_buffer(storage_buffers, index, sizes,
                                               Len(sizes), alignment) :
           /\ storage_buffers[index].buffer
           /\ storage_buffers' = out.sb
           /\ status' = out.status
           /\ bufop' = [ NoBufOp EXCEPT
                           !.op = "append", !.index = index, !.sizes = sizes,
                           !.alignment = alignment,
                           !.starting_offset = out.starting_offset,
                           !.copies = out.copies ]
    /\ UNCHANGED <<rewriteVars, bitmapVars>>

\* the caller has used the value returned by the buffer manager
BufOpDone ==
    /\ status = "ok"
    /\ bufop.op # "none"
    /\ bufop' = NoBufOp
    /\ UNCHANGED <<storage_buffers, status, rewriteVars, bitmapVars>>

\* the renderer state the buffer manager works on
RendererState ==
    [ storage_buffers |-> storage_buffers, uploaded_bitmap |-> uploaded_bitmap,
      bitmap_size |-> bitmap_size, prim_rewrite_buf |-> prim_rewrite_buf ]

\* pgraph_vk_init_buffers on a set that is not created, with any one
\* library call failing or none
InitBuffers ==
    /\ status = "ok"
    /\ bufop.op = "none"
    /\ call.entry = "none"
    /\ \A i \in buffer_names : ~storage_buffers[i].buffer
    /\ \E fail \in FailurePoints :
         LET out == pgraph_vk_init_buffers(RendererState, fail)
         IN  /\ storage_buffers' = out.r.storage_buffers
             /\ uploaded_bitmap' = out.r.uploaded_bitmap
             /\ bitmap_size' = out.r.bitmap_size
             /\ prim_rewrite_buf' = out.r.prim_rewrite_buf
             /\ bufop' = [ NoBufOp EXCEPT
                             !.op = "init", !.fail = fail, !.ok = out.ok,
                             !.unmapped = out.unmapped,
                             !.destroyed = out.destroyed ]
    /\ UNCHANGED <<call, result, status>>

\* pgraph_vk_finalize_buffers, also on a set already torn down.  Handing
\* vmaUnmapMemory a null allocation is undefined: the call may crash.
FinalizeBuffers ==
    /\ status = "ok"
    /\ bufop.op = "none"
    /\ call.entry = "none"
    /\ LET out == pgraph_vk_finalize_buffers(RendererState)
       IN  /\ storage_buffers' = out.r.storage_buffers
           /\ uploaded_bitmap' = out.r.uploaded_bitmap
           /\ bitmap_size' = out.r.bitmap_size
           /\ prim_rewrite_buf' = out.r.prim_rewrite_buf
           /\ bufop' = [ NoBufOp EXCEPT
                           !.op = "finalize", !.unmapped = out.unmapped,
                           !.destroyed = out.destroyed,
                           !.freed_bitmap = (uploaded_bitmap # NULL) ]
           /\ status' \in IF out.stale THEN { "ok", "crashed" } ELSE { "ok" }
    /\ UNCHANGED <<call, result>>

\* the sizes of the video memory the creation is given: the 64 MiB and
\* 128 MiB of the console, and sizes on both sides of each floor and ceiling
MaxVramMiB == 256
VramSizes ==
    { m * mib : m \in { 1, 8, 16, 24, 32, 33, 64, 128, MaxVramMiB } }
    \cup { 16 * mib - 4096, 16 * mib + 4096, 32 * mib - 4096 }

\* pgraph_vk_init_buffers with the sizes in bytes, on a set that is not
\* created, for either platform, with any one library call failing or none
InitBuffersSized ==
    /\ status = "ok"
    /\ bufop.op = "none"
    /\ call.entry = "none"
    /\ \A i \in buffer_names : ~storage_buffers[i].buffer
    /\ \E fail \in FailurePoints, vram_size \in VramSizes, android \in BOOLEAN :
         LET out == pgraph_vk_init_buffers_sized(RendererState, fail,
                                                 vram_size, android)
         IN  /\ storage_buffers' = out.r.storage_buffers
             /\ uploaded_bitmap' = out.r.uploaded_bitmap
             /\ bitmap_size' = out.r.bitmap_size
             /\ prim_rewrite_buf' = out.r.prim_rewrite_buf
             /\ bufop' = [ NoBufOp EXCEPT
                             !.op = "init", !.fail = fail, !.ok = out.ok,
                             !.unmapped = out.unmapped,
                             !.destroyed = out.destroyed,
                             !.vram_size = vram_size, !.android = android ]
    /\ UNCHANGED <<call, result, status>>

Fresh == prim_rewrite_buf = pgraph_prim_rewrite_init

\* the rewrite engine on a scratch buffer that lives across draws
Next ==
    \/ RewriteIndexed(LiveExplicitInputs)
    \/ RewriteRanges(LiveRangeLists)
    \/ SubmitDraw
    \/ Finalize

Spec == Init /\ [][Next]_vars

\* the rewrite engine on a freshly initialised scratch buffer, over the
\* wide input sets
PureNext ==
    \/ (Fresh /\ RewriteIndexed(ExplicitInputs))
    \/ (Fresh /\ RewriteRanges(RangeLists))
    \/ SubmitDraw
    \/ Finalize

PureSpec == Init /\ [][PureNext]_vars

\* the bump allocator of the storage buffers
BufferNext ==
    \/ HasSpaceFor
    \/ AppendToBuffer
    \/ BufOpDone

BufferSpec == Init /\ [][BufferNext]_vars

\* the state before the first creation of the buffer set
LifecycleInit ==
    /\ prim_rewrite_buf = ZeroedState.prim_rewrite_buf
    /\ call = NoCall
    /\ result = EmptyResult
    /\ status = "ok"
    /\ storage_buffers = ZeroedState.storage_buffers
    /\ uploaded_bitmap = ZeroedState.uploaded_bitmap
    /\ bitmap_size = ZeroedState.bitmap_size
    /\ bufop = NoBufOp

\* the buffer set created, used and torn down, any number of times
LifecycleNext ==
    \/ InitBuffers
    \/ FinalizeBuffers
    \/ HasSpaceFor
    \/ AppendToBuffer
    \/ BufOpDone

LifecycleSpec == LifecycleInit /\ [][LifecycleNext]_vars

\* the buffer set created with its sizes in bytes and torn down
SizingNext ==
    \/ InitBuffersSized
    \/ FinalizeBuffers
    \/ BufOpDone

SizingSpec == LifecycleInit /\ [][SizingNext]_vars

(***************************************************************************)
(* Claims about the storage buffers, checked under BufferSpec.             *)
(***************************************************************************)
\* n rounded up to a multiple of d, from its meaning: the least multiple
\* of d that is not below n
RoundedUp(n, d) == CHOOSE m \in n..(n + d - 1) : m % d = 0

\* s[1] + ... + s[k]
RECURSIVE SumFirst(_, _)
SumFirst(s, k) == IF k = 0 THEN 0 ELSE SumFirst(s, k - 1) + s[k]

\* the append recorded in bufop ran: neither assert stopped it
AppendRan(op, st) == op.op = "append" /\ st # "assert_failed"

\* C1: after any sequence of appends, each made with hasSpaceFor true for
\* the sum of its chunk sizes, the bump offset of the buffer is at most its
\* byte size and no byte was copied to an offset at or past the byte size.
C1_AppendStaysInBounds ==
    /\ \A i \in ExercisedBuffers :
         storage_buffers[i].buffer_offset <= storage_buffers[i].buffer_size
    /\ AppendRan(bufop, status) =>
         \A k \in 1..Len(bufop.copies) :
            bufop.copies[k].size > 0 =>
               bufop.copies[k].offset + bufop.copies[k].size
                  <= storage_buffers[bufop.index].buffer_size

\* C2: an append aligns the bump offset once and pads nothing between
\* chunks: from old offset o with alignment A and chunk sizes s1..sk it
\* returns roundUp(o, A), copies chunk i at roundUp(o, A) + s1 + ... + s(i-1)
\* and leaves the bump offset at roundUp(o, A) + s1 + ... + sk.
C2_AppendPacksChunks ==
    [][ AppendRan(bufop', status') /\ bufop.op = "none" =>
          LET o == storage_buffers[bufop'.index].buffer_offset
              first == RoundedUp(o, bufop'.alignment)
              k == Len(bufop'.sizes)
          IN  /\ bufop'.starting_offset = first
              /\ Len(bufop'.copies) = k
              /\ \A i \in 1..k :
                    bufop'.copies[i].offset = first + SumFirst(bufop'.sizes, i - 1)
              /\ storage_buffers'[bufop'.index].buffer_offset
                    = first + SumFirst(bufop'.sizes, k) ]_vars

\* C3: hasSpaceFor answers true exactly when roundUp(bumpOffset, alignment)
\* + size <= byteSize for the bump offset the buffer has at the call, also
\* after appends, and it changes no buffer.
C3_HasSpaceForExact ==
    [][ bufop'.op = "has_space_for" /\ bufop.op = "none" =>
          /\ storage_buffers' = storage_buffers
          /\ bufop'.has_space
               = ( RoundedUp(storage_buffers[bufop'.index].buffer_offset,
                             bufop'.alignment) + bufop'.size
                     <= storage_buffers[bufop'.index].buffer_size ) ]_vars

\* a query answered false and a query answered true, both after an append
\* has moved the bump offset to a place that is not aligned
C3_Witness ==
    /\ bufop.op = "has_space_for"
    /\ storage_buffers[bufop.index].buffer_offset % bufop.alignment # 0
    /\ bufop.size > 0
    /\ ~bufop.has_space
    /\ storage_buffers[bufop.index].buffer_offset + bufop.size
          <= storage_buffers[bufop.index].buffer_size

(***************************************************************************)
(* Claims about the rewrite engine.                                        *)
(***************************************************************************)
\* the input counts of a call: the array's length, or each range's count
InputCounts(c) ==
    IF c.entry = "indexed" THEN << Len(c.input_indices) >> ELSE counts_of(c.ranges)

\* the maximum output size computed for a call, summed over its inputs
RECURSIVE ComputedMaxUpTo(_, _)
ComputedMaxUpTo(c, k) ==
    IF k = 0
    THEN 0
    ELSE ComputedMaxUpTo(c, k - 1)
         + max_output_indices(c.mode.primitive_mode, c.mode.polygon_mode,
                              InputCounts(c)[k])

ComputedMax(c) == ComputedMaxUpTo(c, Len(InputCounts(c)))

\* a call has returned
Returned == call.entry # "none" /\ status = "ok"

\* a call has returned indices it wrote
Rewritten == Returned /\ result.indices # NULL

\* C4: whenever a rewrite is performed, from an array or from a list of
\* ranges, the capacity of the scratch buffer is at least the computed
\* maximum output size (summed over the ranges), the result lies in the
\* scratch buffer, and the number of indices emitted exceeds neither that
\* maximum nor the capacity.
C4_OutputWithinCapacity ==
    (Returned /\ needs_rewrite(call.mode) /\ ComputedMax(call) # 0) =>
        /\ prim_rewrite_buf.capacity >= ComputedMax(call)
        /\ result.indices = prim_rewrite_buf.data
        /\ result.indices # NULL
        /\ result.num_indices <= ComputedMax(call)
        /\ result.num_indices <= prim_rewrite_buf.capacity
        /\ Len(result.data) = result.num_indices

\* a list of two ranges rewritten to exactly the computed maximum, in a
\* scratch buffer that earlier draws had grown past this call's need
C4_Witness ==
    /\ Rewritten
    /\ call.entry = "ranges"
    /\ Len(call.ranges) = 2
    /\ call.ranges[1].count > 0
    /\ call.ranges[2].count > 0
    /\ result.num_indices = ComputedMax(call)
    /\ result.num_indices < prim_rewrite_buf.capacity

FixedGroupModes ==
    { "PRIM_TYPE_LINES", "PRIM_TYPE_TRIANGLES", "PRIM_TYPE_QUADS",
      "PRIM_TYPE_QUAD_STRIP" }

\* C5 as stated: for Lines, Triangles, Quads and QuadStrip a rewrite returns
\* exactly the computed maximum output size, for every input count.
C5_ExactForFixedGroups ==
    (Rewritten /\ call.mode.primitive_mode \in FixedGroupModes) =>
        result.num_indices = ComputedMax(call)

\* the whole groups of g vertices in the inputs of a call, times g
RECURSIVE WholeGroupsUpTo(_, _, _)
WholeGroupsUpTo(c, g, k) ==
    IF k = 0
    THEN 0
    ELSE WholeGroupsUpTo(c, g, k - 1) + (InputCounts(c)[k] \div g) * g

\* C5 amended: for Quads and QuadStrip a rewrite returns exactly the
\* computed maximum output size; for Lines it returns the input count
\* rounded down to a multiple of 2 and for Triangles to a multiple of 3
\* (per range), which is the computed maximum only when no input vertex is
\* left over.
C5_ExactForWholeGroups ==
    Rewritten =>
        /\ call.mode.primitive_mode \in { "PRIM_TYPE_QUADS", "PRIM_TYPE_QUAD_STRIP" }
              => result.num_indices = ComputedMax(call)
        /\ call.mode.primitive_mode = "PRIM_TYPE_LINES"
              => result.num_indices = WholeGroupsUpTo(call, 2, Len(InputCounts(call)))
        /\ call.mode.primitive_mode = "PRIM_TYPE_TRIANGLES"
              => result.num_indices = WholeGroupsUpTo(call, 3, Len(InputCounts(call)))

\* Lines rewritten from five indices: four indices out, the maximum is five
C5_Witness ==
    /\ Rewritten
    /\ call.entry = "indexed"
    /\ call.mode.primitive_mode = "PRIM_TYPE_LINES"
    /\ Len(call.input_indices) = 5
    /\ result.num_indices = 4
    /\ ComputedMax(call) = 5

\* C6: needsRewrite is false for Points, for Lines and Triangles true
\* exactly when lastVertexProvoking and flatShading both are, true for every
\* other topology, and the same for every fill mode; a call that needs no
\* rewrite returns nothing.
C6_NeedsRewriteMatrix ==
    call.entry # "none" =>
        LET m == call.mode
            expected ==
                IF m.primitive_mode = "PRIM_TYPE_POINTS" THEN FALSE
                ELSE IF m.primitive_mode \in { "PRIM_TYPE_LINES", "PRIM_TYPE_TRIANGLES" }
                THEN m.last_provoking = TRUE /\ m.flat_shading = TRUE
                ELSE TRUE
        IN  /\ needs_rewrite(m) = expected
            /\ \A pm \in PolygonModes :
                  needs_rewrite([ m EXCEPT !.polygon_mode = pm ]) = expected
            /\ (~expected /\ status = "ok") => result.num_indices = 0
            /\ result.num_indices > 0 => expected

\* Triangles rewritten because both flags are set
C6_Witness ==
    /\ Rewritten
    /\ call.mode.primitive_mode = "PRIM_TYPE_TRIANGLES"
    /\ call.mode.last_provoking
    /\ call.mode.flat_shading
    /\ result.num_indices = 3

\* C7: resolveOutputTopology maps Points to Points, the three line
\* topologies to Lines, the three triangle topologies to Triangles, and
\* Quads, QuadStrip and Polygon to Lines in fill mode Line and to Triangles
\* in every other fill mode; it has a value for all ten topologies with
\* every fill mode.
C7_OutputModeTable ==
    /\ call.entry # "none" =>
         LET t == call.mode.primitive_mode
             f == call.mode.polygon_mode
         IN  /\ t = "PRIM_TYPE_POINTS" => call.output_mode = "PRIM_TYPE_POINTS"
             /\ t \in { "PRIM_TYPE_LINES", "PRIM_TYPE_LINE_STRIP", "PRIM_TYPE_LINE_LOOP" }
                   => call.output_mode = "PRIM_TYPE_LINES"
             /\ t \in { "PRIM_TYPE_TRIANGLES", "PRIM_TYPE_TRIANGLE_STRIP",
                        "PRIM_TYPE_TRIANGLE_FAN" }
                   => call.output_mode = "PRIM_TYPE_TRIANGLES"
             /\ t \in { "PRIM_TYPE_QUADS", "PRIM_TYPE_QUAD_STRIP", "PRIM_TYPE_POLYGON" }
                   => call.output_mode = IF f = "POLY_MODE_LINE"
                                         THEN "PRIM_TYPE_LINES"
                                         ELSE "PRIM_TYPE_TRIANGLES"
    /\ \A t \in PrimitiveModes, f \in PolygonModes :
          pgraph_prim_rewrite_get_output_mode(t, f)
             \in { "PRIM_TYPE_POINTS", "PRIM_TYPE_LINES", "PRIM_TYPE_TRIANGLES" }

\* a quad strip drawn in fill mode Point comes out as triangles
C7_Witness ==
    /\ Rewritten
    /\ call.mode.primitive_mode = "PRIM_TYPE_QUAD_STRIP"
    /\ call.mode.polygon_mode = "POLY_MODE_POINT"
    /\ call.output_mode = "PRIM_TYPE_TRIANGLES"
    /\ result.num_indices = 6

\* C8: when needsRewrite is false or the computed maximum output size is
\* zero, an entry point that returns returns count 0 with a null data
\* pointer and leaves the data pointer and the capacity of the scratch
\* buffer as they were.
C8_EmptyResultLeavesBuffer ==
    [][ ( /\ call.entry = "none"
          /\ call'.entry # "none"
          /\ status' = "ok"
          /\ (~needs_rewrite(call'.mode) \/ ComputedMax(call') = 0) ) =>
        ( /\ result'.num_indices = 0
          /\ result'.indices = NULL
          /\ prim_rewrite_buf'.data = prim_rewrite_buf.data
          /\ prim_rewrite_buf'.capacity = prim_rewrite_buf.capacity ) ]_vars

\* a topology that needs rewriting, given too few vertices, on a scratch
\* buffer that holds storage from an earlier draw
C8_Witness ==
    /\ Returned
    /\ needs_rewrite(call.mode)
    /\ ComputedMax(call) = 0
    /\ call.entry = "ranges"
    /\ Len(call.ranges) = 2
    /\ call.ranges[1].count > 0
    /\ result.indices = NULL
    /\ prim_rewrite_buf.data # NULL
    /\ prim_rewrite_buf.capacity > 0

\* the index sequences of the outcomes of a call: what was written, in order
IndexSequences(outs) == { [ status |-> o.status, seq |-> o.result.data ] : o \in outs }

IndexedOn(mode, a) ==
    IndexSequences(pgraph_prim_rewrite_indexed(pgraph_prim_rewrite_init, mode, a, Len(a)))

RangesOn(mode, rs) ==
    IndexSequences(pgraph_prim_rewrite_ranges(pgraph_prim_rewrite_init, mode,
                                              starts_of(rs), counts_of(rs), Len(rs)))

\* what the call of the state produced
Produced == { [ status |-> status, seq |-> result.data ] }

\* C9: for every assembly state and every N, the ranges entry point given
\* the single range (0, N) and the explicit-index entry point given the
\* indices 0..N-1 return the same index sequence.
C9_SingleRangeEqualsIota ==
    /\ ( /\ call.entry = "ranges"
         /\ Len(call.ranges) = 1
         /\ call.ranges[1].start = 0 ) =>
            IndexedOn(call.mode, Iota(0, call.ranges[1].count)) = Produced
    /\ ( /\ call.entry = "indexed"
         /\ call.input_indices = Iota(0, Len(call.input_indices)) ) =>
            RangesOn(call.mode, << [ start |-> 0, count |-> Len(call.input_indices) ] >>)
               = Produced

\* a triangle strip over the range (0, 6)
C9_Witness ==
    /\ Rewritten
    /\ call.entry = "ranges"
    /\ call.ranges = << [ start |-> 0, count |-> 6 ] >>
    /\ call.mode.primitive_mode = "PRIM_TYPE_TRIANGLE_STRIP"
    /\ call.mode.last_provoking
    /\ result.num_indices = 12

\* the indices a list of ranges denotes when read as one sequence
RECURSIVE Concatenated(_, _)
Concatenated(rs, k) ==
    IF k = 0 THEN << >>
    ELSE Concatenated(rs, k - 1) \o Iota(rs[k].start, rs[k].count)

\* C10 as stated: the ranges entry point returns what the explicit-index
\* entry point returns on the concatenation of the ranges.
C10_RangesAsOneSequence ==
    (call.entry = "ranges" /\ status = "ok") =>
        IndexedOn(call.mode, Concatenated(call.ranges, Len(call.ranges))) = Produced

\* the index sequence the explicit-index entry point returns for an array
IndexedSeq(mode, a) == (CHOOSE o \in IndexedOn(mode, a) : TRUE).seq

RECURSIVE PerRange(_, _, _)
PerRange(mode, rs, k) ==
    IF k = 0 THEN << >>
    ELSE PerRange(mode, rs, k - 1) \o IndexedSeq(mode, Iota(rs[k].start, rs[k].count))

\* C10 amended: the ranges entry point decomposes every range on its own;
\* it returns the concatenation, in the order of the ranges, of what the
\* explicit-index entry point returns for each range's indices
\* start_r..start_r+count_r-1, so no primitive spans two ranges.
C10_RangesOneByOne ==
    (call.entry = "ranges" /\ status = "ok") =>
        result.data = PerRange(call.mode, call.ranges, Len(call.ranges))

\* a line strip over (0, 2), (2, 2): two lines, not the three of 0..3
C10_Witness ==
    /\ Rewritten
    /\ call.entry = "ranges"
    /\ call.ranges = << [ start |-> 0, count |-> 2 ], [ start |-> 2, count |-> 2 ] >>
    /\ call.mode.primitive_mode = "PRIM_TYPE_LINE_STRIP"
    /\ ~call.mode.last_provoking
    /\ result.data = << 0, 1, 2, 3 >>

\* the range list rs with the range x put in after its first pos ranges
InsertAt(rs, pos, x) == SubSeq(rs, 1, pos) \o << x >> \o SubSeq(rs, pos + 1, Len(rs))

\* C11: a range of count zero is skipped without error: the ranges entry
\* point returns the same index sequence, and stops at no assertion it did
\* not stop at before, when a range (start, 0) is put in at any position of
\* its range list (and so also when one is taken out); checked for the
\* lists that stay within MaxRanges ranges with the range put in.
C11_EmptyRangeSkipped ==
    (call.entry = "ranges" /\ Len(call.ranges) < MaxRanges) =>
        \A pos \in 0..Len(call.ranges), s \in Starts :
            RangesOn(call.mode, InsertAt(call.ranges, pos, [ start |-> s, count |-> 0 ]))
               = Produced

\* a triangle fan over an empty range followed by the range (0, 4)
C11_Witness ==
    /\ Rewritten
    /\ call.entry = "ranges"
    /\ call.ranges = << [ start |-> 2, count |-> 0 ], [ start |-> 0, count |-> 4 ] >>
    /\ call.mode.primitive_mode = "PRIM_TYPE_TRIANGLE_FAN"
    /\ result.num_indices = 6

\* the explicit-index entry point returned from a triangle fan over
\* (10, 20, 30, 40) with the first vertex provoking
FanSampleCall ==
    /\ Returned
    /\ call.entry = "indexed"
    /\ call.input_indices = << 10, 20, 30, 40 >>
    /\ call.mode.primitive_mode = "PRIM_TYPE_TRIANGLE_FAN"
    /\ ~call.mode.last_provoking

\* C18 as stated: TriangleFan on input (10, 20, 30, 40) with
\* lastVertexProvoking = false yields exactly the index sequence of triangle
\* (10, 20, 30) followed by triangle (10, 30, 40).
C18_FanHubFirst ==
    FanSampleCall => result.data = << 10, 20, 30, 10, 30, 40 >>

\* C18 amended: TriangleFan on input (10, 20, 30, 40) with
\* lastVertexProvoking = false yields the triangles (10, 20, 30) and
\* (10, 30, 40), each rotated so that its provoking vertex, the one after
\* the hub, comes first: the index sequence (20, 30, 10), (30, 40, 10).
C18_FanProvokingFirst ==
    FanSampleCall =>
        /\ result.indices # NULL
        /\ result.num_indices = 6
        /\ result.data = << 20, 30, 10, 30, 40, 10 >>

\* the fan of the example has been rewritten
C18_Witness ==
    /\ FanSampleCall
    /\ Rewritten
    /\ result.num_indices = 6
    /\ call.mode.polygon_mode = "POLY_MODE_FILL"

\* the explicit-index entry point returned from the primitive type prim in
\* a fill mode that is not Line
FilledCall(prim) ==
    /\ Returned
    /\ call.entry = "indexed"
    /\ call.mode.primitive_mode = prim
    /\ call.mode.polygon_mode # "POLY_MODE_LINE"

\* the six indices written for the group or window number w (from 0)
SixOf(w) == SubSeq(result.data, 6 * w + 1, 6 * w + 6)

\* C19: in a fill mode other than Line, each Quads group (v0,v1,v2,v3)
\* emits (v0,v1,v2),(v0,v2,v3) when not flat-shaded and (v3,v0,v1),(v3,v1,v2)
\* when flat-shaded; each QuadStrip window (v0,v1,v2,v3), taken at stride 2,
\* emits (v0,v1,v2),(v2,v1,v3) when not flat-shaded and, when flat-shaded,
\* two triangles that both start with v3 and together hold the four
\* vertices; nothing else is emitted, whatever lastVertexProvoking is.
C19_QuadDiagonals ==
    LET a == call.input_indices
        n == Len(a)
    IN  /\ FilledCall("PRIM_TYPE_QUADS") =>
              /\ Len(result.data) = 6 * (n \div 4)
              /\ \A w \in 0..((n \div 4) - 1) :
                    LET v0 == a[4 * w + 1]
                        v1 == a[4 * w + 2]
                        v2 == a[4 * w + 3]
                        v3 == a[4 * w + 4]
                    IN  SixOf(w) = IF call.mode.flat_shading
                                   THEN << v3, v0, v1, v3, v1, v2 >>
                                   ELSE << v0, v1, v2, v0, v2, v3 >>
        /\ FilledCall("PRIM_TYPE_QUAD_STRIP") =>
              LET windows == IF n < 4 THEN 0 ELSE (n - 2) \div 2
              IN  /\ Len(result.data) = 6 * windows
                  /\ \A w \in 0..(windows - 1) :
                        LET v0 == a[2 * w + 1]
                            v1 == a[2 * w + 2]
                            v2 == a[2 * w + 3]
                            v3 == a[2 * w + 4]
                            t == SixOf(w)
                        IN  IF call.mode.flat_shading
                            THEN /\ t[1] = v3
                                 /\ t[4] = v3
                                 /\ { t[k] : k \in 1..6 } = { v0, v1, v2, v3 }
                            ELSE t = << v0, v1, v2, v2, v1, v3 >>

\* a flat-shaded quad strip of two windows over 0..5
C19_Witness ==
    /\ FilledCall("PRIM_TYPE_QUAD_STRIP")
    /\ call.mode.flat_shading
    /\ call.mode.last_provoking
    /\ call.input_indices = << 0, 1, 2, 3, 4, 5 >>
    /\ result.data = << 3, 2, 0, 3, 0, 1, 5, 4, 2, 5, 2, 3 >>

\* the vertex pairs of the index array a read as Lines, LineStrip, LineLoop
LinePairs(prim, a) ==
    LET n == Len(a)
    IN  CASE prim = "PRIM_TYPE_LINES" ->
                 [ k \in 1..(n \div 2) |-> << a[2 * k - 1], a[2 * k] >> ]
          [] prim = "PRIM_TYPE_LINE_STRIP" ->
                 [ k \in 1..(n - 1) |-> << a[k], a[k + 1] >> ]
          [] prim = "PRIM_TYPE_LINE_LOOP" ->
                 IF n < 2 THEN << >>
                 ELSE [ k \in 1..n |-> IF k < n THEN << a[k], a[k + 1] >>
                                               ELSE << a[n], a[1] >> ]

\* one line per pair, the pair's second vertex first when last_provoking
LinesOf(pairs, last_provoking) ==
    [ j \in 1..(2 * Len(pairs)) |->
        LET p == pairs[(j + 1) \div 2]
        IN  IF (j % 2 = 1) = last_provoking THEN p[2] ELSE p[1] ]

\* the explicit-index entry point returned from a rewrite of a line type
\* (Lines is rewritten only when last-vertex provoking and flat-shaded)
LineCall ==
    /\ Returned
    /\ call.entry = "indexed"
    /\ call.mode.primitive_mode
          \in { "PRIM_TYPE_LINES", "PRIM_TYPE_LINE_STRIP", "PRIM_TYPE_LINE_LOOP" }
    /\ call.mode.primitive_mode = "PRIM_TYPE_LINES" =>
          (call.mode.last_provoking /\ call.mode.flat_shading)

\* C20: when Lines (pairs (v_2k, v_2k+1)), LineStrip (pairs (v_i, v_i+1))
\* or LineLoop (the strip pairs and the closing pair (v_n-1, v_0), n >= 2)
\* is rewritten, every pair emits exactly one line holding both of its
\* vertices, the pair's second vertex first when lastVertexProvoking and
\* its first vertex first otherwise, in the order of the pairs; LineLoop on
\* (5, 6, 7) with lastVertexProvoking = false yields (5,6),(6,7),(7,5).
\* The entry points rewrite Lines only when last-vertex provoking and
\* flat-shaded, so the rule of Lines with the first vertex provoking is
\* checked on rewrite_lines itself, over the arrays the calls were given.
C20_OneLinePerPair ==
    /\ call.entry = "indexed" =>
          \A last_provoking \in BOOLEAN :
              rewrite_lines(EmptyResult, ArrayIdx(call.input_indices), 0,
                            Len(call.input_indices), last_provoking).data
                 = LinesOf(LinePairs("PRIM_TYPE_LINES", call.input_indices),
                           last_provoking)
    /\ LineCall =>
          result.data = LinesOf(LinePairs(call.mode.primitive_mode,
                                          call.input_indices),
                                call.mode.last_provoking)
    /\ ( /\ LineCall
         /\ call.mode.primitive_mode = "PRIM_TYPE_LINE_LOOP"
         /\ ~call.mode.last_provoking
         /\ call.input_indices = << 5, 6, 7 >> ) =>
            result.data = << 5, 6, 6, 7, 7, 5 >>

\* the line loop over (5, 6, 7) with the last vertex provoking
C20_Witness ==
    /\ LineCall
    /\ Rewritten
    /\ call.mode.primitive_mode = "PRIM_TYPE_LINE_LOOP"
    /\ call.mode.last_provoking
    /\ call.input_indices = << 5, 6, 7 >>
    /\ result.data = << 6, 5, 7, 6, 5, 7 >>

(***************************************************************************)
(* Claims about the assertions of the storage buffers (BufferSpec).        *)
(***************************************************************************)
\* this step is a call of the buffer operation op
Calls(op) == bufop.op = "none" /\ bufop'.op = op

\* hasSpaceFor, asked before the append of this step for the sum of its
\* chunk sizes and its alignment, answers false
DoesNotFit ==
    ~pgraph_vk_buffer_has_space_for(storage_buffers, bufop'.index,
                                    SumFirst(bufop'.sizes, Len(bufop'.sizes)),
                                    bufop'.alignment)

\* C15: an append called when hasSpaceFor(role, sum of the chunk sizes,
\* alignment) is false stops at a fatal assertion before any byte is copied
\* and before the bump offset is changed.
C15_NoSpaceStopsBeforeCopy ==
    [][ (Calls("append") /\ DoesNotFit) =>
          /\ status' = "assert_failed"
          /\ bufop'.copies = << >>
          /\ storage_buffers' = storage_buffers ]_vars

\* an append to a mapped buffer stopped because its chunks, which would fit
\* at the bump offset as it is, do not fit behind the aligned offset
C15_Witness ==
    /\ status = "assert_failed"
    /\ bufop.op = "append"
    /\ storage_buffers[bufop.index].mapped
    /\ storage_buffers[bufop.index].buffer_offset > 0
    /\ storage_buffers[bufop.index].buffer_offset
          + SumFirst(bufop.sizes, Len(bufop.sizes))
             <= storage_buffers[bufop.index].buffer_size

\* C16 as stated: append and hasSpaceFor, called on a buffer that is not
\* mapped, both end in a fatal assertion and return no value.
C16_UnmappedIsFatal ==
    [][ ( /\ Calls("append") \/ Calls("has_space_for")
          /\ ~storage_buffers[bufop'.index].mapped ) =>
            status' = "assert_failed" ]_vars

\* C16 amended: an append called on a buffer that is not mapped ends in a
\* fatal assertion, with nothing copied and no offset moved; hasSpaceFor
\* does not look at the mapping: on a buffer that is not mapped it returns
\* the answer it gives for a mapped buffer of that size and bump offset.
C16_UnmappedAppendIsFatal ==
    [][ /\ ( Calls("append") /\ ~storage_buffers[bufop'.index].mapped ) =>
              /\ status' = "assert_failed"
              /\ bufop'.copies = << >>
              /\ storage_buffers' = storage_buffers
        /\ ( Calls("has_space_for") /\ ~storage_buffers[bufop'.index].mapped ) =>
              /\ status' = "ok"
              /\ storage_buffers' = storage_buffers
              /\ bufop'.has_space
                   = pgraph_vk_buffer_has_space_for(
                         [ storage_buffers EXCEPT ![bufop'.index].mapped = TRUE ],
                         bufop'.index, bufop'.size, bufop'.alignment) ]_vars

\* an append of chunks that fit, stopped because the buffer is not mapped
C16_Witness ==
    /\ status = "assert_failed"
    /\ bufop.op = "append"
    /\ ~storage_buffers[bufop.index].mapped
    /\ Len(bufop.sizes) > 0
    /\ pgraph_vk_buffer_has_space_for(storage_buffers, bufop.index,
                                      SumFirst(bufop.sizes, Len(bufop.sizes)),
                                      bufop.alignment)

(***************************************************************************)
(* Claims about the creation and teardown of the buffer set                *)
(* (LifecycleSpec).                                                        *)
(***************************************************************************)
\* no buffer of the set holds a buffer handle or an allocation
NoneAllocated ==
    \A i \in buffer_names :
        ~storage_buffers[i].buffer /\ ~storage_buffers[i].allocation

\* no buffer of the set is recorded as mapped
NoneMapped == \A i \in buffer_names : ~storage_buffers[i].mapped

\* C12: if the creation or the mapping of any single buffer fails during
\* the creation of the buffer set, the creation reports failure and
\* afterwards no buffer of the set is allocated, none is mapped and the
\* upload-tracking bitmap is released.
C12_FailedCreationUnwinds ==
    (bufop.op = "init" /\ bufop.fail.kind \in { "create", "map" }) =>
        /\ ~bufop.ok
        /\ NoneAllocated
        /\ NoneMapped
        /\ uploaded_bitmap = NULL

\* the mapping of the third buffer to map failed: two buffers had been
\* mapped and all eleven created, and all were given back
C12_Witness ==
    /\ bufop.op = "init"
    /\ bufop.fail = [ kind |-> "map", at |-> 2 ]
    /\ bufop.unmapped = << "BUFFER_INDEX_STAGING", "BUFFER_VERTEX_RAM" >>
    /\ Len(bufop.destroyed) = BUFFER_COUNT
    /\ NoneAllocated
    /\ NoneMapped

\* C13: teardown is idempotent: after a teardown no buffer is recorded as
\* mapped or allocated and the bitmap is released, and a teardown of a set
\* already torn down performs no unmap and no free.
C13_TeardownIdempotent ==
    [][ Calls("finalize") =>
          /\ \A i \in buffer_names :
                /\ ~storage_buffers'[i].mapped
                /\ ~storage_buffers'[i].buffer
                /\ ~storage_buffers'[i].allocation
          /\ uploaded_bitmap' = NULL
          /\ NoneAllocated =>
                /\ bufop'.unmapped = << >>
                /\ bufop'.destroyed = << >>
                /\ ~bufop'.freed_bitmap ]_vars

\* the creation of this step succeeded
Created == Calls("init") /\ bufop'.ok

\* C14 as stated: after a successful creation of the buffer set every
\* buffer of the host-visible memory class has a non-null mapped pointer
\* and no device-local buffer has one.
C14_HostVisibleAllMapped ==
    (bufop.op = "init" /\ bufop.ok) =>
        \A i \in buffer_names :
            storage_buffers[i].mapped
               = (storage_buffers[i].alloc_info = "host_alloc_create_info")

\* C14 amended: after a successful creation of the buffer set exactly the
\* vertex-memory buffer and the index, inline-vertex and uniform staging
\* buffers have a non-null mapped pointer; each of them is host-visible;
\* the host-visible transfer staging buffers (source and destination) and
\* every device-local buffer have none.
C14_MappedRoster ==
    (bufop.op = "init" /\ bufop.ok) =>
        /\ \A i \in buffer_names :
              storage_buffers[i].mapped
                 = (i \in { "BUFFER_VERTEX_RAM", "BUFFER_INDEX_STAGING",
                            "BUFFER_VERTEX_INLINE_STAGING",
                            "BUFFER_UNIFORM_STAGING" })
        /\ \A i \in buffer_names :
              storage_buffers[i].mapped =>
                 storage_buffers[i].alloc_info = "host_alloc_create_info"
        /\ storage_buffers["BUFFER_STAGING_DST"].alloc_info = "host_alloc_create_info"
        /\ storage_buffers["BUFFER_STAGING_SRC"].alloc_info = "host_alloc_create_info"
        /\ \A i \in buffer_names : storage_buffers[i].buffer

\* a creation that succeeded: a staging buffer of the uniforms is mapped,
\* the transfer staging buffer and the device-local index buffer are not
C14_Witness ==
    /\ bufop.op = "init"
    /\ bufop.ok
    /\ uploaded_bitmap # NULL
    /\ storage_buffers["BUFFER_UNIFORM_STAGING"].mapped
    /\ ~storage_buffers["BUFFER_STAGING_DST"].mapped
    /\ ~storage_buffers["BUFFER_INDEX"].mapped

\* C17: the bump offset of a buffer never decreases: hasSpaceFor leaves it
\* unchanged, every append leaves it at or above its previous value, and
\* no operation of the buffer manager other than the creation of the
\* buffer set (teardown included) sets it back.
C17_BumpOffsetMonotone ==
    [][ /\ Calls("has_space_for") => storage_buffers' = storage_buffers
        /\ ~Calls("init") =>
              \A i \in buffer_names :
                  storage_buffers'[i].buffer_offset
                     >= storage_buffers[i].buffer_offset ]_vars

\* an append of two chunks has moved on a bump offset that an earlier
\* append had moved
C17_Witness ==
    /\ bufop.op = "append"
    /\ status = "ok"
    /\ bufop.starting_offset > 0
    /\ Len(bufop.copies) = 2
    /\ storage_buffers[bufop.index].buffer_offset > bufop.starting_offset

(***************************************************************************)
(* Claims about the triangle rules (PureSpec).                             *)
(***************************************************************************)
\* the three indices written for the triangle number w (from 0)
ThreeOf(w) == SubSeq(result.data, 3 * w + 1, 3 * w + 3)

\* the cyclic rotations of a triple: the orders that keep its winding
Rotations(t) ==
    { << t[1], t[2], t[3] >>, << t[2], t[3], t[1] >>, << t[3], t[1], t[2] >> }

\* the explicit-index entry point returned from the primitive type prim
IndexedCall(prim) ==
    /\ Returned
    /\ call.entry = "indexed"
    /\ call.mode.primitive_mode = prim

\* C21: for TriangleStrip over n inputs, triangle i (0 <= i <= n-3) is
\* emitted as a cyclic rotation of (v_i, v_i+1, v_i+2) when i is even and of
\* (v_i+1, v_i, v_i+2) when i is odd, its first index having the value of
\* v_i+2 when lastVertexProvoking and of v_i otherwise, also when index
\* values repeat; nothing else is emitted.
C21_StripWinding ==
    IndexedCall("PRIM_TYPE_TRIANGLE_STRIP") =>
        LET a == call.input_indices
            n == Len(a)
        IN  /\ Len(result.data) = IF n < 3 THEN 0 ELSE 3 * (n - 2)
            /\ \A i \in 0..(n - 3) :
                  LET t == ThreeOf(i)
                  IN  /\ t \in Rotations(IF i % 2 = 0
                                         THEN << a[i + 1], a[i + 2], a[i + 3] >>
                                         ELSE << a[i + 2], a[i + 1], a[i + 3] >>)
                      /\ t[1] = IF call.mode.last_provoking
                                THEN a[i + 3] ELSE a[i + 1]

\* a strip over 0..4 with the first vertex provoking: the odd triangle
\* (2,1,3) rotated to start with vertex 1
C21_Witness ==
    /\ IndexedCall("PRIM_TYPE_TRIANGLE_STRIP")
    /\ ~call.mode.last_provoking
    /\ call.input_indices = << 0, 1, 2, 3, 4 >>
    /\ result.data = << 0, 1, 2, 1, 3, 2, 2, 3, 4 >>

\* the triangles rewrite_triangles writes for the array a
TrianglesOf(a, last_provoking) ==
    rewrite_triangles(EmptyResult, ArrayIdx(a), 0, Len(a), last_provoking).data

\* the sequence data is one rotation per whole triple of a, each starting
\* with the value of its third vertex when last_provoking, of its first
\* otherwise, and nothing for the indices left over
RotatedTriples(data, a, last_provoking) ==
    /\ Len(data) = 3 * (Len(a) \div 3)
    /\ \A k \in 0..((Len(a) \div 3) - 1) :
          LET t == SubSeq(data, 3 * k + 1, 3 * k + 3)
          IN  /\ t \in Rotations(<< a[3 * k + 1], a[3 * k + 2], a[3 * k + 3] >>)
              /\ t[1] = IF last_provoking THEN a[3 * k + 3] ELSE a[3 * k + 1]

\* C23: for Triangles, each consecutive triple (a,b,c) is emitted as one of
\* the rotations (a,b,c), (b,c,a), (c,a,b), never a swap, whose first
\* element has the value of c when lastVertexProvoking and of a otherwise;
\* trailing indices that complete no triple emit nothing.  The entry points
\* rewrite Triangles only when last-vertex provoking and flat-shaded, so
\* the rule with the first vertex provoking is checked on rewrite_triangles
\* itself, over the arrays the calls were given.
C23_TriplesRotated ==
    /\ call.entry = "indexed" =>
          \A last_provoking \in BOOLEAN :
              RotatedTriples(TrianglesOf(call.input_indices, last_provoking),
                             call.input_indices, last_provoking)
    /\ ( /\ IndexedCall("PRIM_TYPE_TRIANGLES")
         /\ call.mode.last_provoking
         /\ call.mode.flat_shading ) =>
            RotatedTriples(result.data, call.input_indices, TRUE)

\* flat-shaded triangles over 0..4 with the last vertex provoking: one
\* triple rotated, the two indices left over dropped
C23_Witness ==
    /\ IndexedCall("PRIM_TYPE_TRIANGLES")
    /\ call.mode.last_provoking
    /\ call.mode.flat_shading
    /\ call.input_indices = << 0, 1, 2, 3, 4 >>
    /\ result.data = << 2, 0, 1 >>

\* C24: for TriangleFan over n >= 3 inputs, triangle i (0 <= i <= n-3) is
\* emitted as a cyclic rotation of (v_0, v_i+1, v_i+2) whose first index has
\* the value of v_i+2 when lastVertexProvoking and of v_i+1 otherwise; with
\* n < 3 nothing is emitted.
C24_FanRotated ==
    IndexedCall("PRIM_TYPE_TRIANGLE_FAN") =>
        LET a == call.input_indices
            n == Len(a)
        IN  /\ Len(result.data) = IF n < 3 THEN 0 ELSE 3 * (n - 2)
            /\ \A i \in 0..(n - 3) :
                  LET t == ThreeOf(i)
                  IN  /\ t \in Rotations(<< a[1], a[i + 2], a[i + 3] >>)
                      /\ t[1] = IF call.mode.last_provoking
                                THEN a[i + 3] ELSE a[i + 2]

\* a fan over 2..6 with the last vertex provoking
C24_Witness ==
    /\ IndexedCall("PRIM_TYPE_TRIANGLE_FAN")
    /\ call.mode.last_provoking
    /\ call.input_indices = << 2, 3, 4, 5, 6 >>
    /\ result.data = << 4, 2, 3, 5, 2, 4, 6, 2, 5 >>

\* C25: for Polygon in a fill mode other than Line over n >= 3 inputs the
\* output is exactly (v_0, v_i+1, v_i+2) for i = 0..n-3 in order, v_0 first
\* in every triangle, the same for all four combinations of
\* lastVertexProvoking and flatShading.
C25_PolygonHubFirst ==
    FilledCall("PRIM_TYPE_POLYGON") =>
        LET a == call.input_indices
            n == Len(a)
        IN  /\ Len(result.data) = IF n < 3 THEN 0 ELSE 3 * (n - 2)
            /\ \A i \in 0..(n - 3) :
                  ThreeOf(i) = << a[1], a[i + 2], a[i + 3] >>

\* a flat-shaded polygon over 0..4 with the last vertex provoking
C25_Witness ==
    /\ FilledCall("PRIM_TYPE_POLYGON")
    /\ call.mode.last_provoking
    /\ call.mode.flat_shading
    /\ call.input_indices = << 0, 1, 2, 3, 4 >>
    /\ result.data = << 0, 1, 2, 0, 2, 3, 0, 3, 4 >>

(***************************************************************************)
(* Claims about the line fill mode (PureSpec).                             *)
(***************************************************************************)
\* the explicit-index entry point returned from the primitive type prim in
\* fill mode Line
OutlineCall(prim) ==
    IndexedCall(prim) /\ call.mode.polygon_mode = "POLY_MODE_LINE"

\* the eight indices written for the group or window number w (from 0)
EightOf(w) == SubSeq(result.data, 8 * w + 1, 8 * w + 8)

\* the four lines that walk once around v0, v1, v2, v3 and back to v0
Outline4(v0, v1, v2, v3) == << v0, v1, v1, v2, v2, v3, v3, v0 >>

\* C26: with fill mode Line each primitive is emitted as one closed
\* outline: every Quads group as (v0,v1),(v1,v2),(v2,v3),(v3,v0); every
\* QuadStrip window (stride two) as the cycle along v0, v1, v3, v2, that is
\* (v0,v1),(v1,v3),(v3,v2),(v2,v0); Polygon over n >= 2 inputs as the n
\* lines (v_i, v_(i+1) mod n).  The output topology is Lines, so no triangle
\* is emitted, and the output is the same for every value of
\* lastVertexProvoking and flatShading.
C26_ClosedOutlines ==
    LET a == call.input_indices
        n == Len(a)
    IN  /\ OutlineCall("PRIM_TYPE_QUADS") =>
              /\ call.output_mode = "PRIM_TYPE_LINES"
              /\ Len(result.data) = 8 * (n \div 4)
              /\ \A g \in 0..((n \div 4) - 1) :
                    EightOf(g) = Outline4(a[4 * g + 1], a[4 * g + 2],
                                          a[4 * g + 3], a[4 * g + 4])
        /\ OutlineCall("PRIM_TYPE_QUAD_STRIP") =>
              LET windows == IF n < 4 THEN 0 ELSE (n - 2) \div 2
              IN  /\ call.output_mode = "PRIM_TYPE_LINES"
                  /\ Len(result.data) = 8 * windows
                  /\ \A w \in 0..(windows - 1) :
                        EightOf(w) = Outline4(a[2 * w + 1], a[2 * w + 2],
                                              a[2 * w + 4], a[2 * w + 3])
        /\ OutlineCall("PRIM_TYPE_POLYGON") =>
              /\ call.output_mode = "PRIM_TYPE_LINES"
              /\ Len(result.data) = IF n < 2 THEN 0 ELSE 2 * n
              /\ n >= 2 =>
                    \A i \in 0..(n - 1) :
                        SubSeq(result.data, 2 * i + 1, 2 * i + 2)
                            = << a[i + 1], a[((i + 1) % n) + 1] >>

\* the outline of a flat-shaded pentagon with the last vertex provoking,
\* closed by the line from vertex 4 back to vertex 0
C26_Witness ==
    /\ OutlineCall("PRIM_TYPE_POLYGON")
    /\ call.mode.last_provoking
    /\ call.mode.flat_shading
    /\ call.input_indices = << 0, 1, 2, 3, 4 >>
    /\ result.data = << 0, 1, 1, 2, 2, 3, 3, 4, 4, 0 >>

(***************************************************************************)
(* Claims about the sizes of the buffers (SizingSpec).                     *)
(***************************************************************************)
\* the larger and the smaller of two numbers
Larger(a, b) == IF a >= b THEN a ELSE b
Smaller(a, b) == IF a <= b THEN a ELSE b

\* a creation with the sizes in bytes has succeeded
CreatedSized == bufop.op = "init" /\ bufop.ok /\ bufop.vram_size > 0

\* C22: after a creation from a video memory of backingSize bytes the
\* staging destination holds max(backingSize, 16 MiB) bytes; the compute
\* destination min(max(2 x backingSize, 64 MiB), ceiling) bytes, the
\* ceiling being 64 MiB on the memory-constrained platform and 256 MiB
\* otherwise; the vertex-from-memory buffer backingSize bytes; and every
\* source or staging buffer as many bytes as its destination or device
\* counterpart.
C22_PolicySizes ==
    CreatedSized =>
        LET size(name) == storage_buffers[name].buffer_size
            backingSize == bufop.vram_size
            ceiling == IF bufop.android THEN 64 * 1048576 ELSE 256 * 1048576
        IN  /\ size("BUFFER_STAGING_DST") = Larger(backingSize, 16 * 1048576)
            /\ size("BUFFER_COMPUTE_DST")
                   = Smaller(Larger(2 * backingSize, 64 * 1048576), ceiling)
            /\ size("BUFFER_VERTEX_RAM") = backingSize
            /\ size("BUFFER_STAGING_SRC") = size("BUFFER_STAGING_DST")
            /\ size("BUFFER_COMPUTE_SRC") = size("BUFFER_COMPUTE_DST")
            /\ size("BUFFER_INDEX_STAGING") = size("BUFFER_INDEX")
            /\ size("BUFFER_VERTEX_INLINE_STAGING") = size("BUFFER_VERTEX_INLINE")
            /\ size("BUFFER_UNIFORM_STAGING") = size("BUFFER_UNIFORM")

\* the 128 MiB console built for the other platforms: the doubled size
\* meets the ceiling of 256 MiB
C22_Witness ==
    /\ CreatedSized
    /\ ~bufop.android
    /\ bufop.vram_size = 128 * 1048576
    /\ storage_buffers["BUFFER_STAGING_DST"].buffer_size = 128 * 1048576
    /\ storage_buffers["BUFFER_COMPUTE_SRC"].buffer_size = 256 * 1048576

(***************************************************************************)
(* Claims about the scratch buffer across draws (Spec).                    *)
(***************************************************************************)
\* the step is a call of a rewrite entry point
RewriteCall == call.entry = "none" /\ call'.entry # "none"

\* the call of the step computes its maximum output size: it passes the
\* assertion on the assembly state and the test of needs_rewrite
ComputesMax == mode_assert(call'.mode) /\ needs_rewrite(call'.mode)

\* C27: across the rewrite calls made on one scratch buffer between init
\* and finalize the capacity never decreases; a call whose computed maximum
\* output size exceeds the capacity sets the capacity to the larger of that
\* size and twice the old capacity; a call whose maximum output size fits,
\* or that computes none, leaves the capacity and the data pointer
\* unchanged.
C27_CapacityGrowsOnly ==
    [][ /\ (call.entry # "none" \/ call'.entry # "none") =>
              prim_rewrite_buf'.capacity >= prim_rewrite_buf.capacity
        /\ (RewriteCall /\ ComputesMax
                /\ ComputedMax(call') > prim_rewrite_buf.capacity) =>
              prim_rewrite_buf'.capacity
                  = Larger(ComputedMax(call'), 2 * prim_rewrite_buf.capacity)
        /\ (RewriteCall
                /\ (~ComputesMax \/ ComputedMax(call') <= prim_rewrite_buf.capacity)) =>
              /\ prim_rewrite_buf'.capacity = prim_rewrite_buf.capacity
              /\ prim_rewrite_buf'.data = prim_rewrite_buf.data ]_vars

\* a call that needed 8 indices returned from a scratch buffer of capacity
\* 12, twice the capacity of 6 that earlier calls had left
C27_Witness ==
    /\ Rewritten
    /\ ComputedMax(call) = 8
    /\ prim_rewrite_buf.capacity = 12

\* what a call with the assembly state and input of c returns when it is
\* the first call on a freshly initialised scratch buffer
OnFreshBuffer(c) ==
    IF c.entry = "indexed"
    THEN IndexedOn(c.mode, c.input_indices)
    ELSE RangesOn(c.mode, c.ranges)

\* C28 as stated, its last part: a call that returns indices on a scratch
\* buffer that already holds storage, where earlier results were written,
\* returns them in that same storage.
C28_SameStorageAsEarlier ==
    [][ ( /\ RewriteCall
          /\ status' = "ok"
          /\ prim_rewrite_buf.data # NULL
          /\ result'.num_indices > 0 ) =>
        result'.indices = prim_rewrite_buf.data ]_vars

\* C28: every rewrite call writes from position 0 of the scratch buffer:
\* the index sequence it returns is the one the same assembly state and
\* input give on a freshly initialised buffer, whatever calls were made
\* before; a non-empty result starts at the data pointer of the scratch
\* buffer, which is the storage of the earlier results when the call's
\* maximum output size fits the capacity and may be other storage when the
\* buffer had to grow.
C28_StartsAtZero ==
    [][ (RewriteCall /\ status' = "ok") =>
        /\ [ status |-> "ok", seq |-> result'.data ] \in OnFreshBuffer(call')
        /\ Len(result'.data) = result'.num_indices
        /\ result'.num_indices > 0 =>
              /\ result'.indices = prim_rewrite_buf'.data
              /\ ComputedMax(call') <= prim_rewrite_buf.capacity =>
                    result'.indices = prim_rewrite_buf.data ]_vars

\* a triangle fan over four vertices returned from a scratch buffer that
\* earlier calls had grown beyond this call's need
C28_Witness ==
    /\ Rewritten
    /\ call.entry = "indexed"
    /\ call.mode.primitive_mode = "PRIM_TYPE_TRIANGLE_FAN"
    /\ call.mode.last_provoking
    /\ call.input_indices = << 0, 1, 2, 3 >>
    /\ result.data = << 2, 0, 1, 3, 0, 2 >>
    /\ prim_rewrite_buf.capacity > ComputedMax(call)
    /\ result.indices = prim_rewrite_buf.data

(***************************************************************************)
(* Claims about the result as a whole (PureSpec).                          *)
(***************************************************************************)
\* C29 as stated: an entry point returns count zero only together with a
\* null data pointer.
C29_ZeroCountIsNull ==
    (Returned /\ result.num_indices = 0) => result.indices = NULL

\* C29: an entry point returns a null data pointer exactly when no rewrite
\* is needed or the computed maximum output size is zero, and then with
\* count zero; a call that goes on to rewrite returns the data pointer of
\* the scratch buffer even when it writes no index, which happens only for
\* Lines and Triangles, whose maximum counts the vertices that complete no
\* pair or triple.
C29_NullIffNoRewrite ==
    Returned =>
        /\ result.indices = NULL
               <=> (~needs_rewrite(call.mode) \/ ComputedMax(call) = 0)
        /\ result.indices = NULL => result.num_indices = 0
        /\ result.indices # NULL => result.indices = prim_rewrite_buf.data
        /\ (result.indices # NULL /\ result.num_indices = 0) =>
               call.mode.primitive_mode \in { "PRIM_TYPE_LINES", "PRIM_TYPE_TRIANGLES" }

\* flat-shaded Lines with the last vertex provoking over one vertex: the
\* maximum is 1, no pair is complete, count 0 comes with a data pointer
C29_Witness ==
    /\ IndexedCall("PRIM_TYPE_LINES")
    /\ call.input_indices = << 0 >>
    /\ needs_rewrite(call.mode)
    /\ result.num_indices = 0
    /\ result.indices # NULL

\* C30: the index list an entry point returns is made of whole primitives
\* of the type pgraph_prim_rewrite_get_output_mode reports for the same
\* primitive type and fill mode: its count is a multiple of 2 when that
\* type is Lines and a multiple of 3 when it is Triangles, for every
\* assembly state, array and list of ranges.
C30_WholePrimitives ==
    Returned =>
        /\ Len(result.data) = result.num_indices
        /\ call.output_mode = "PRIM_TYPE_LINES" => result.num_indices % 2 = 0
        /\ call.output_mode = "PRIM_TYPE_TRIANGLES" => result.num_indices % 3 = 0

\* a quad strip of three vertices and one of four drawn as two ranges in a
\* fill mode that is not Line: the first gives nothing, the second two
\* triangles
C30_Witness ==
    /\ Rewritten
    /\ call.entry = "ranges"
    /\ call.mode.primitive_mode = "PRIM_TYPE_QUAD_STRIP"
    /\ call.output_mode = "PRIM_TYPE_TRIANGLES"
    /\ counts_of(call.ranges) = << 3, 4 >>
    /\ result.num_indices = 6

====
